---- MODULE Spec2Model ----
(***************************************************************************)
(* Model of the dashboard API server (src/unnamed/part_002): the request-  *)
(* coalescing cache withCache, the cached loaders built on it and the      *)
(* status aggregation handler getOpenClawStats.                            *)
(*                                                                         *)
(*   Spec        withCache under arbitrary callers and loader outcomes     *)
(*   SpecStatus  the status resource: getOpenClawStats, get24HourTokens,   *)
(*               getOpenClawStatusJson and getOpenclawPath                 *)
(*                                                                         *)
(* Node runs one callback at a time, so one action is one synchronous run  *)
(* of the program between two suspension points (await).  A pending        *)
(* promise created by withCache is a record of `loads`; the callers and    *)
(* loaders that await it are resumed when it settles.                      *)
(***************************************************************************)
EXTENDS Integers, Sequences, FiniteSets, TLC

(***************************************************************************)
(* Bounds of the model.                                                    *)
(***************************************************************************)
NumCallers == 2     \* concurrent callers of withCache / concurrent requests
MaxLoads   == 3     \* loader invocations in one behaviour of Spec
NumValues  == 2     \* distinct payloads an upstream can answer with
MaxTicks   == 2     \* clock advances in one behaviour
MaxRows    == 3     \* usage rows of the last 24 hours, in SpecUsage
MaxTokens  == 2     \* largest token counter of a usage row, in SpecUsage
Quantum    == 5000  \* milliseconds per clock advance

(***************************************************************************)
(* Program constants: the key and the ttlMs argument of each withCache     *)
(* call site.                                                              *)
(***************************************************************************)
TTL_STATUS_JSON == 10000
TTL_24H_TOKENS  == 15000
TTL_STATS       == 10000
TTL_HISTORY     == 5000
TTL_CRON        == 15000
TTL_TOKENS      == 10000
TTL_CONNECTIONS == 5000
TTL_HEALTH      == 5000
TTL_PROCESSES   == 10000

KEY_STATUS_JSON == "openclaw-status-json"
KEY_24H_TOKENS  == "openclaw-24h-tokens"
KEY_STATS       == "openclaw-stats"
KEY_CRON        == "cron-jobs"
KEY_TOKENS      == "token-breakdown"
KEY_CONNECTIONS == "connections"
KEY_HEALTH      == "health"
KEY_PROCESSES   == "process-insights"

\* lines 311-317: the keys of the object `ranges`.
Ranges == {"1h", "8h", "24h", "7d", "30d"}

\* line 320: `history:${normalizedRange}`
HistoryKey(range) ==
    CASE range = "1h"  -> "history:1h"
      [] range = "8h"  -> "history:8h"
      [] range = "24h" -> "history:24h"
      [] range = "7d"  -> "history:7d"
      [] range = "30d" -> "history:30d"

HistoryKeys == {HistoryKey(r) : r \in Ranges}

Keys ==
    {KEY_STATUS_JSON, KEY_24H_TOKENS, KEY_STATS, KEY_CRON, KEY_TOKENS,
     KEY_CONNECTIONS, KEY_HEALTH, KEY_PROCESSES} \cup HistoryKeys

\* Keys whose loader makes no nested withCache call.
LeafKeys == {KEY_STATUS_JSON, KEY_24H_TOKENS}

TtlOf(key) ==
    CASE key = KEY_STATUS_JSON -> TTL_STATUS_JSON
      [] key = KEY_24H_TOKENS  -> TTL_24H_TOKENS
      [] key = KEY_STATS       -> TTL_STATS
      [] key = KEY_CRON        -> TTL_CRON
      [] key = KEY_TOKENS      -> TTL_TOKENS
      [] key = KEY_CONNECTIONS -> TTL_CONNECTIONS
      [] key = KEY_HEALTH      -> TTL_HEALTH
      [] key = KEY_PROCESSES   -> TTL_PROCESSES
      [] key \in HistoryKeys   -> TTL_HISTORY

Callers == 1..NumCallers
Values  == {[json |-> i] : i \in 1..NumValues}

\* Date.now() when the process starts: later than every TTL after the epoch.
BootTime == TTL_24H_TOKENS + Quantum
MaxNow   == BootTime + MaxTicks * Quantum

VARIABLES
    now,                \* Date.now()
    cacheStore,         \* the Map cacheStore: key -> entry
    loads,              \* the promises created by withCache, in creation order;
                        \* a settled promise leaves Settled in its place
    callers,            \* the callers of withCache suspended on a promise
    returned,           \* what the last step returned to each caller
    lastKnownOpenClaw,  \* the last successful status payload, or Null
    openclawPathPromise,\* the memoised CLI path resolution
    conns,              \* the request each connection's handler is working on
    sent,               \* the response the last step sent on each connection
    listening           \* the process is alive and its listener accepts

\* The state of the HTTP front door.
httpVars == <<conns, sent, listening>>

vars == <<now, cacheStore, loads, callers, returned, lastKnownOpenClaw,
          openclawPathPromise, conns, sent, listening>>

(***************************************************************************)
(* Values.                                                                 *)
(***************************************************************************)
Undefined == [undefined |-> TRUE]
Null      == [null |-> TRUE]
NoLoad    == 0      \* inFlight: null

\* The error object thrown by the loader of promise id: every failing loader
\* invocation throws an object of its own.
ErrorOf(id) == [thrownBy |-> id]

\* cacheStore.get(key) of a key that was never set: undefined.  The code reads
\* it only through existing?.value, existing?.timestamp || 0, existing?.inFlight.
NoEntry == [present |-> FALSE, value |-> Undefined, timestamp |-> 0, inFlight |-> NoLoad]

\* How a promise returned by withCache settles.  `by` names the statement that
\* settled it: "cache" (line 88), "loader" (line 98), "stale" (line 102),
\* "throw" (line 105).
Fulfilled(v, by) == [kind |-> "value", value |-> v, by |-> by]
Rejected(e)      == [kind |-> "error", error |-> e, by |-> "throw"]

(***************************************************************************)
(* withCache, piece by piece.                                              *)
(***************************************************************************)

\* Mutant of IsFresh: an entry aged exactly ttlMs still counts as fresh.
IsFresh_AtTtl(existing, ttlMs, t) ==
    /\ existing.present
    /\ existing.value # Undefined
    /\ t - existing.timestamp <= ttlMs

\* Mutant of IsFresh: a held value is served whatever its age.
IsFresh_AnyAge(existing, ttlMs, t) ==
    existing.present /\ existing.value # Undefined

\* line 87: existing && existing.value !== undefined && now - existing.timestamp < ttlMs
IsFresh(existing, ttlMs, t) ==
    /\ existing.present
    /\ existing.value # Undefined
    /\ t - existing.timestamp < ttlMs

\* Mutant of HasInFlight: the in-flight promise is never reused.
HasInFlight_Never(existing) == FALSE

\* line 90: existing?.inFlight
HasInFlight(existing) == existing.present /\ existing.inFlight # NoLoad

\* Mutant of EntryWhileLoading: the promise is not recorded in the entry.
EntryWhileLoading_NoHandle(existing, id) ==
    [present |-> TRUE, value |-> existing.value,
     timestamp |-> existing.timestamp, inFlight |-> NoLoad]

\* Mutant of EntryWhileLoading: the entry is stamped when the load starts.
EntryWhileLoading_Stamped(existing, id) ==
    [present |-> TRUE, value |-> existing.value,
     timestamp |-> now, inFlight |-> id]

\* lines 109-113: the entry written when a load starts.
EntryWhileLoading(existing, id) ==
    [present |-> TRUE, value |-> existing.value,
     timestamp |-> existing.timestamp, inFlight |-> id]

\* Mutant of EntryAfterSuccess: the entry is stamped with the start of the
\* epoch.
EntryAfterSuccess_Unstamped(value, t) ==
    [present |-> TRUE, value |-> value, timestamp |-> 0, inFlight |-> NoLoad]

\* line 97: the entry written when the loader resolves.
EntryAfterSuccess(value, t) ==
    [present |-> TRUE, value |-> value, timestamp |-> t, inFlight |-> NoLoad]

\* line 100: the condition under which a loader failure is suppressed.
ServesStale(existing, allowStaleOnError) ==
    allowStaleOnError /\ existing.present /\ existing.value # Undefined

\* Mutant of EntryAfterFailure: a failure drops the previous value.
EntryAfterFailure_DropsValue(existing, allowStaleOnError) ==
    [present |-> TRUE, value |-> Undefined, timestamp |-> 0, inFlight |-> NoLoad]

\* Mutant of EntryAfterFailure: a stale re-serve restarts the freshness window.
EntryAfterFailure_Restamped(existing, allowStaleOnError) ==
    [present |-> TRUE, value |-> existing.value,
     timestamp |-> IF allowStaleOnError /\ existing.value # Undefined
                   THEN now ELSE existing.timestamp,
     inFlight |-> NoLoad]

\* lines 101 and 104: the entry written when the loader rejects (both branches
\* write the value and the timestamp captured when the call started).
EntryAfterFailure(existing, allowStaleOnError) ==
    [present |-> TRUE, value |-> existing.value,
     timestamp |-> existing.timestamp, inFlight |-> NoLoad]

\* Nothing delivered yet to a suspended loader.
Nothing == [nothing |-> TRUE]

\* The continuation of a loader suspended at an await: where it is (`pc`), the
\* withCache promise it awaits if any (`awaiting`), the outcome that promise
\* delivered (`inbox`) and the loader's local variables (`mem`).
Run(pc, awaiting, inbox, mem) ==
    [pc |-> pc, awaiting |-> awaiting, inbox |-> inbox, mem |-> mem]

NoMem == [none |-> TRUE]

\* A loader the cache knows nothing about: it resolves or rejects.
Opaque == Run("opaque", NoLoad, Nothing, NoMem)

\* lines 94-107: the promise `inFlight`, with what its closure captured and the
\* continuation of its loader.
NewLoad(key, existing, allowStaleOnError, run) ==
    [key |-> key, existing |-> existing, allowStaleOnError |-> allowStaleOnError,
     run |-> run]

Settled == [settled |-> TRUE]

IsPending(id) == loads[id] # Settled

LoadIds == 1..Len(loads)

\* A caller suspended on the promise withCache returned to it.
Waiting(key, how, id) == [key |-> key, how |-> how, load |-> id]

Idle == [key |-> "", how |-> "idle", load |-> NoLoad]

\* What one withCache call handed to its caller: how the call was served
\* ("fresh": line 88, "joined": line 91, "started": line 115), the promise it
\* awaited, the entry that promise's closure captured (`existing`) and the
\* promise's outcome.
Returned(key, how, id, existing, outcome) ==
    [key |-> key, how |-> how, load |-> id, existing |-> existing,
     outcome |-> outcome]

NoReturn == [none |-> TRUE]

\* A connection on which no request is in progress, one whose request was
\* answered and one the process dropped when it exited; no response sent.
Closed     == [stage |-> "closed"]
Answered   == [stage |-> "answered"]
Reset      == [stage |-> "reset"]
NoResponse == [none |-> TRUE]

(***************************************************************************)
(* Init.                                                                   *)
(***************************************************************************)
Init ==
    /\ now = BootTime
    /\ cacheStore = [k \in Keys |-> NoEntry]
    /\ loads = <<>>
    /\ callers = [c \in Callers |-> Idle]
    /\ returned = [c \in Callers |-> NoReturn]
    /\ lastKnownOpenClaw = Null
    /\ openclawPathPromise = Null
    /\ conns = [c \in Callers |-> Closed]
    /\ sent = [c \in Callers |-> NoResponse]
    /\ listening = TRUE

\* The clock advances between callbacks.
Tick ==
    /\ now + Quantum <= MaxNow
    /\ now' = now + Quantum
    /\ returned' = [c \in Callers |-> NoReturn]
    /\ UNCHANGED <<cacheStore, loads, callers, lastKnownOpenClaw, openclawPathPromise>>

(***************************************************************************)
(* Spec: withCache under arbitrary callers and arbitrary loader outcomes.  *)
(***************************************************************************)

\* lines 82-116: withCache(key, TtlOf(key), loader, {allowStaleOnError}) on the
\* cache cs and the promises ls, up to its return.  `run` is the loader's
\* continuation at its first await, should the loader be invoked.  The result
\* tells how the call was served, the promise it returned and the cache and
\* promises it leaves.
WithCache(cs, ls, key, allowStaleOnError, run) ==
    LET existing == cs[key]
        id       == Len(ls) + 1
    IN
    IF IsFresh(existing, TtlOf(key), now)
    THEN [how |-> "fresh", load |-> NoLoad, cache |-> cs, loads |-> ls]
    ELSE IF HasInFlight(existing)
    THEN [how |-> "joined", load |-> existing.inFlight, cache |-> cs, loads |-> ls]
    ELSE [how |-> "started", load |-> id,
          cache |-> [cs EXCEPT ![key] = EntryWhileLoading(existing, id)],
          loads |-> Append(ls, NewLoad(key, existing, allowStaleOnError, run))]

\* The caller c of a withCache call that returned r: answered at once from the
\* cache, or suspended on the promise.
Serve(c, key, r) ==
    IF r.how = "fresh"
    THEN /\ returned' = [d \in Callers |->
                IF d = c
                THEN Returned(key, "fresh", NoLoad, cacheStore[key],
                              Fulfilled(cacheStore[key].value, "cache"))
                ELSE NoReturn]
         /\ UNCHANGED callers
    ELSE /\ callers' = [callers EXCEPT ![c] = Waiting(key, r.how, r.load)]
         /\ returned' = [d \in Callers |-> NoReturn]

\* One call of withCache by caller c, its loader opaque.
Call(c, key, allowStaleOnError) ==
    LET r == WithCache(cacheStore, loads, key, allowStaleOnError, Opaque) IN
    /\ callers[c] = Idle
    /\ Len(r.loads) <= MaxLoads
    /\ cacheStore' = r.cache
    /\ loads' = r.loads
    /\ Serve(c, key, r)
    /\ UNCHANGED <<now, lastKnownOpenClaw, openclawPathPromise>>

\* Promise id settles with outcome: every caller awaiting it is resumed with it.
Deliver(id, outcome) ==
    /\ callers' = [c \in Callers |->
           IF callers[c].load = id THEN Idle ELSE callers[c]]
    /\ returned' = [c \in Callers |->
           IF callers[c].load = id
           THEN Returned(callers[c].key, callers[c].how, id,
                         loads[id].existing, outcome)
           ELSE NoReturn]

\* Mutant of AfterSettle: the loaders awaiting the promise are not resumed.
AfterSettle_NoWake(ls, id, outcome) ==
    [i \in 1..Len(ls) |-> IF i = id THEN Settled ELSE ls[i]]

\* The promises after promise id settled with outcome: it is gone, and every
\* loader awaiting it holds the outcome.
AfterSettle(ls, id, outcome) ==
    [i \in 1..Len(ls) |->
        IF i = id THEN Settled
        ELSE IF ls[i] # Settled /\ ls[i].run.awaiting = id
        THEN [ls[i] EXCEPT !.run.awaiting = NoLoad, !.run.inbox = outcome]
        ELSE ls[i]]

\* lines 96-98: the loader of promise id resolved with value.
SettleSuccess(id, value) ==
    /\ IsPending(id)
    /\ cacheStore' = [cacheStore EXCEPT
           ![loads[id].key] = EntryAfterSuccess(value, now)]
    /\ loads' = AfterSettle(loads, id, Fulfilled(value, "loader"))
    /\ Deliver(id, Fulfilled(value, "loader"))

\* Mutant of SettleFailure: the catch branch forgets to write the entry.
SettleFailure_NoWrite(id, error) ==
    /\ IsPending(id)
    /\ UNCHANGED cacheStore
    /\ loads' = AfterSettle(loads, id, Rejected(error))
    /\ Deliver(id, Rejected(error))

\* Mutant of SettleFailure: a failure empties the whole cache.
SettleFailure_ClearsCache(id, error) ==
    /\ IsPending(id)
    /\ cacheStore' = [k \in Keys |->
           IF k = loads[id].key
           THEN EntryAfterFailure(loads[id].existing, loads[id].allowStaleOnError)
           ELSE NoEntry]
    /\ loads' = AfterSettle(loads, id, Rejected(error))
    /\ Deliver(id, Rejected(error))

\* lines 99-106: the loader of promise id rejected with error.
SettleFailure(id, error) ==
    LET existing == loads[id].existing
        stale    == ServesStale(existing, loads[id].allowStaleOnError)
        outcome  == IF stale THEN Fulfilled(existing.value, "stale")
                             ELSE Rejected(error)
    IN
    /\ IsPending(id)
    /\ cacheStore' = [cacheStore EXCEPT
           ![loads[id].key] = EntryAfterFailure(existing, loads[id].allowStaleOnError)]
    /\ loads' = AfterSettle(loads, id, outcome)
    /\ Deliver(id, outcome)

\* An opaque loader resolves / rejects.
LoaderResolves(id, value) ==
    /\ loads[id] # Settled /\ loads[id].run = Opaque
    /\ SettleSuccess(id, value)
    /\ UNCHANGED <<now, lastKnownOpenClaw, openclawPathPromise>>

LoaderRejects(id, error) ==
    /\ loads[id] # Settled /\ loads[id].run = Opaque
    /\ SettleFailure(id, error)
    /\ UNCHANGED <<now, lastKnownOpenClaw, openclawPathPromise>>

Next ==
    \/ Tick /\ UNCHANGED httpVars
    \/ \E c \in Callers, key \in LeafKeys, a \in BOOLEAN :
          Call(c, key, a) /\ UNCHANGED httpVars
    \/ \E id \in LoadIds, v \in Values :
          LoaderResolves(id, v) /\ UNCHANGED httpVars
    \/ \E id \in LoadIds :
          LoaderRejects(id, ErrorOf(id)) /\ UNCHANGED httpVars

Spec == Init /\ [][Next]_vars


(***************************************************************************)
(* The cached loaders of the status resource and their upstreams.          *)
(***************************************************************************)

\* getOpenclawCandidates with OPENCLAW_PATH set, in the order they are probed.
Candidates ==
    <<"$OPENCLAW_PATH", "~/.nvm/versions/node/<version>/bin/openclaw",
      "/usr/local/bin/openclaw", "/opt/homebrew/bin/openclaw", "openclaw">>

\* The outputs of `openclaw status --json` the model draws from: i sessions,
\* session j holding j tokens.
StatusJson(i) ==
    [sessions |-> [count |-> i,
                   recent |-> [j \in 1..i |-> [totalTokens |-> j]]]]

CliStatusOutputs == {StatusJson(i) : i \in 1..NumValues}

\* How an awaited upstream call ends.
Ok(v)     == [kind |-> "value", value |-> v]
Thrown(e) == [kind |-> "error", error |-> e]

\* What the sqlite3 subprocess of queryDb ends with: rows, or a failure whose
\* message is the sequence of the fragments of its error text.
DbRows(rows)     == [kind |-> "rows", rows |-> rows]
DbError(message) == [kind |-> "error", message |-> message]

NO_SUCH_TABLE == "no such table: metrics"

DbFailures ==
    {DbError(<<"Command failed: sqlite3 -json", "Error: in prepare, ", NO_SUCH_TABLE>>),
     DbError(<<"Command failed: sqlite3 -json", "Error: unable to open database file">>)}

\* errorText.includes(needle)
Includes(message, needle) == \E i \in 1..Len(message) : message[i] = needle

\* Mutant of QueryDb: a failure is thrown whatever the option.
QueryDb_Throws(answer, throwOnError) ==
    IF answer.kind = "rows" THEN Ok(answer.rows) ELSE Thrown(answer.message)

\* lines 200-209: queryDb(sql, {throwOnError})
QueryDb(answer, throwOnError) ==
    IF answer.kind = "rows" THEN Ok(answer.rows)
    ELSE IF throwOnError THEN Thrown(answer.message)
    ELSE Ok(<<>>)

\* A row of openclaw_stats.
Row(timestamp, tokens) == [timestamp |-> timestamp, sessions |-> 1, tokens |-> tokens]

\* The rows the store may hold of the last 24 hours: none, a growing counter,
\* a counter that was reset.
UsageRowSets == {<<>>, <<Row(1, 5), Row(2, 7)>>, <<Row(1, 7), Row(2, 5)>>}

\* What the sqlite3 subprocess answers to the last-24-hours query.
UsageAnswers == {DbRows(rows) : rows \in UsageRowSets} \cup DbFailures

\* What the store answers to the latest-row query.
LatestRowSets == {<<>>, <<Row(2, 7)>>}

RECENT_LIMIT == 10

Max(a, b) == IF a >= b THEN a ELSE b
Min(a, b) == IF a <= b THEN a ELSE b

\* array.slice(0, n)
Slice(array, n) == SubSeq(array, 1, Min(n, Len(array)))

RECURSIVE SumTokens(_, _)
\* line 250: recent.slice(0, 10).reduce((sum, s) => sum + (s.totalTokens || 0), 0)
SumTokens(recent, n) ==
    IF n = 0 THEN 0 ELSE SumTokens(recent, n - 1) + recent[n].totalTokens

TotalTokens(status) ==
    SumTokens(status.sessions.recent, Min(Len(status.sessions.recent), RECENT_LIMIT))

\* Mutant of Tokens24h: the delta is not floored at 0.
Tokens24h_NoFloor(rows) ==
    IF Len(rows) = 0
    THEN [tokens24h |-> 0, samples |-> 0]
    ELSE [tokens24h |-> rows[Len(rows)].tokens - rows[1].tokens,
          samples |-> Len(rows), history |-> rows]

\* lines 230-240: the payload of get24HourTokens for the rows of the store.
Tokens24h(rows) ==
    IF Len(rows) = 0
    THEN [tokens24h |-> 0, samples |-> 0]
    ELSE [tokens24h |-> Max(0, rows[Len(rows)].tokens - rows[1].tokens),
          samples |-> Len(rows), history |-> rows]

\* lines 254-271: the payload of a successful status refresh (the fields taken
\* from the main session, the memory, the gateway and the channels are left
\* out: no decision depends on them).
RunningStats(status, stats24h, t) ==
    [installed |-> TRUE, status |-> "running",
     sessions |-> status.sessions.count, tokens |-> TotalTokens(status),
     tokens24h |-> stats24h.tokens24h, lastUpdated |-> t]

\* Mutant of DownFromSnapshot: the snapshot is served as it is.
DownFromSnapshot_AsIs(snapshot) == snapshot

\* lines 277-282: the last known snapshot, marked down.
DownFromSnapshot(snapshot) ==
    [installed |-> snapshot.installed, status |-> "down",
     sessions |-> snapshot.sessions, tokens |-> snapshot.tokens,
     tokens24h |-> snapshot.tokens24h, lastUpdated |-> snapshot.lastUpdated,
     cached |-> TRUE]

\* lines 289-297: the payload built from the latest row of openclaw_stats.
DownFromRow(last, stats24h) ==
    [installed |-> TRUE, status |-> "down", sessions |-> last.sessions,
     tokens |-> last.tokens, tokens24h |-> stats24h.tokens24h,
     lastUpdated |-> last.timestamp * 1000, cached |-> TRUE]

\* lines 301-305: nothing is known.
UnknownStats(openclawPath, error) ==
    [installed |-> openclawPath # Null, status |-> "unknown", error |-> error]

\* A resolved CLI path (the other result of the probe is Null).
PathOf(candidate) == [path |-> candidate]

\* line 215: new Error('openclaw not found')
NotFoundError == [message |-> "openclaw not found"]

\* The probe suspended in the version invocation of candidate `trying`, having
\* passed the candidates before it: `skipped` do not exist, the version
\* invocation of `failed` failed.
Probing(trying, skipped, failed) ==
    [state |-> "pending", trying |-> trying, skipped |-> skipped, failed |-> failed]

\* The probe ended with path (Null: no candidate works).
Probed(path, skipped, failed) ==
    [state |-> "resolved", path |-> path, skipped |-> skipped, failed |-> failed]

\* Mutant of GetOpenclawPath: no memoisation, every call probes again.
GetOpenclawPath_Again(promise, first) ==
    Probing(first, 1..(first - 1), {})

\* lines 119-134: getOpenclawPath() up to its first await: it returns the
\* memoised promise or starts the probe, whose first runCommand is on the
\* first candidate that exists (the bare name is tried without looking).
GetOpenclawPath(promise, first) ==
    IF promise # Null THEN promise ELSE Probing(first, 1..(first - 1), {})

PathResolved == openclawPathPromise # Null /\ openclawPathPromise.state = "resolved"

\* The continuation of a loader that awaits what the withCache call r on key
\* returned: the value handed over at once, or the promise.
AwaitRun(pc, cs, key, r, mem) ==
    IF r.how = "fresh"
    THEN Run(pc, NoLoad, Fulfilled(cs[key].value, "cache"), mem)
    ELSE Run(pc, r.load, Nothing, mem)

\* Mutant of StatusJsonCall: the status is loaded without looking at the cache.
StatusJsonCall_Uncached(cs, ls) ==
    [how |-> "started", load |-> Len(ls) + 1,
     cache |-> [cs EXCEPT ![KEY_STATUS_JSON] =
                   EntryWhileLoading(cs[KEY_STATUS_JSON], Len(ls) + 1)],
     loads |-> Append(ls, NewLoad(KEY_STATUS_JSON, cs[KEY_STATUS_JSON], FALSE,
                                  Run("awaitPath", NoLoad, Nothing, NoMem)))]

\* lines 211-217: getOpenClawStatusJson() on cache cs and promises ls; its
\* loader stops at `await getOpenclawPath()`.
StatusJsonCall(cs, ls) ==
    WithCache(cs, ls, KEY_STATUS_JSON, FALSE, Run("awaitPath", NoLoad, Nothing, NoMem))

\* lines 225-228: get24HourTokens() on cache cs and promises ls; its loader
\* stops at `await queryDb(...)`.
Tokens24hCall(cs, ls) ==
    WithCache(cs, ls, KEY_24H_TOKENS, FALSE, Run("awaitDb", NoLoad, Nothing, NoMem))

NoReturns == [c \in Callers |-> NoReturn]

\* lines 244-247: getOpenClawStats() called by c.  When the loader is invoked
\* it runs up to `await getOpenClawStatusJson()`, which may start the status
\* load and, with it, the path probe.
GetOpenClawStats(c, first) ==
    LET outer == WithCache(cacheStore, loads, KEY_STATS, FALSE, Opaque)
        inner == StatusJsonCall(outer.cache, outer.loads)
    IN
    /\ callers[c] = Idle
    /\ Serve(c, KEY_STATS, outer)
    /\ IF outer.how = "started"
       THEN /\ cacheStore' = inner.cache
            /\ loads' = [inner.loads EXCEPT ![outer.load].run =
                   AwaitRun("awaitStatus", outer.cache, KEY_STATUS_JSON, inner, NoMem)]
            /\ openclawPathPromise' =
                   IF inner.how = "started"
                   THEN GetOpenclawPath(openclawPathPromise, first)
                   ELSE openclawPathPromise
       ELSE UNCHANGED <<cacheStore, loads, openclawPathPromise>>
    /\ UNCHANGED <<now, lastKnownOpenClaw>>

\* lines 225-242: get24HourTokens() called by c (GET /openclaw/history).
Get24HourTokens(c) ==
    LET r == Tokens24hCall(cacheStore, loads) IN
    /\ callers[c] = Idle
    /\ Serve(c, KEY_24H_TOKENS, r)
    /\ cacheStore' = r.cache
    /\ loads' = r.loads
    /\ UNCHANGED <<now, lastKnownOpenClaw, openclawPathPromise>>

\* lines 124-126: the version invocation of the candidate on trial succeeds.
ProbeVersionOk ==
    /\ openclawPathPromise # Null
    /\ openclawPathPromise.state = "pending"
    /\ openclawPathPromise' =
           Probed(PathOf(Candidates[openclawPathPromise.trying]),
                  openclawPathPromise.skipped, openclawPathPromise.failed)
    /\ returned' = NoReturns
    /\ UNCHANGED <<now, cacheStore, loads, callers, lastKnownOpenClaw>>

\* lines 122-131: the version invocation fails: the next candidate that exists
\* is tried, and after the last one the result is null.
ProbeVersionFails(next) ==
    /\ openclawPathPromise # Null
    /\ openclawPathPromise.state = "pending"
    /\ LET trying == openclawPathPromise.trying
           failed == openclawPathPromise.failed \cup {trying}
       IN
       IF trying = Len(Candidates)
       THEN openclawPathPromise' = Probed(Null, openclawPathPromise.skipped, failed)
       ELSE /\ next > trying
            /\ openclawPathPromise' =
                   Probing(next,
                           openclawPathPromise.skipped \cup ((trying + 1)..(next - 1)),
                           failed)
    /\ returned' = NoReturns
    /\ UNCHANGED <<now, cacheStore, loads, callers, lastKnownOpenClaw>>

AtPc(id, key, pc) ==
    /\ loads[id] # Settled
    /\ loads[id].key = key
    /\ loads[id].run.pc = pc

\* lines 213-217: the status loader resumes with the resolved path: it throws
\* when there is none, else it starts `openclaw status --json`.
StatusJsonGotPath(id) ==
    /\ AtPc(id, KEY_STATUS_JSON, "awaitPath")
    /\ PathResolved
    /\ IF openclawPathPromise.path = Null
       THEN SettleFailure(id, NotFoundError)
       ELSE /\ loads' = [loads EXCEPT ![id].run.pc = "awaitCli"]
            /\ returned' = NoReturns
            /\ UNCHANGED <<cacheStore, callers>>
    /\ UNCHANGED <<now, lastKnownOpenClaw, openclawPathPromise>>

\* lines 217-221: the status command ends with output that parses to status.
CliStatusOk(id, status) ==
    /\ AtPc(id, KEY_STATUS_JSON, "awaitCli")
    /\ SettleSuccess(id, status)
    /\ UNCHANGED <<now, lastKnownOpenClaw, openclawPathPromise>>

\* lines 217-221: the status command fails, times out or prints no JSON.
CliStatusFails(id) ==
    /\ AtPc(id, KEY_STATUS_JSON, "awaitCli")
    /\ SettleFailure(id, ErrorOf(id))
    /\ UNCHANGED <<now, lastKnownOpenClaw, openclawPathPromise>>

\* lines 228-240: the last-24-hours query ends with answer.
UsageQueryDone(id, answer) ==
    LET rows == QueryDb(answer, FALSE) IN
    /\ AtPc(id, KEY_24H_TOKENS, "awaitDb")
    /\ IF rows.kind = "value"
       THEN SettleSuccess(id, Tokens24h(rows.value))
       ELSE SettleFailure(id, [message |-> rows.error])
    /\ UNCHANGED <<now, lastKnownOpenClaw, openclawPathPromise>>

\* The stats loader id moves on to `await get24HourTokens()` at pc.
StatsCalls24h(id, pc, mem) ==
    LET r == Tokens24hCall(cacheStore, loads) IN
    /\ cacheStore' = r.cache
    /\ loads' = [r.loads EXCEPT ![id].run =
           AwaitRun(pc, cacheStore, KEY_24H_TOKENS, r, mem)]
    /\ returned' = NoReturns
    /\ UNCHANGED <<callers, lastKnownOpenClaw>>

\* Mutant of StatsCatch: the snapshot is dropped once it was served.
StatsCatch_Forgets(id, error) ==
    IF lastKnownOpenClaw # Null
    THEN /\ SettleSuccess(id, DownFromSnapshot(lastKnownOpenClaw))
         /\ lastKnownOpenClaw' = Null
    ELSE /\ loads' = [loads EXCEPT ![id].run =
                Run("awaitLatestRow", NoLoad, Nothing, [error |-> error])]
         /\ returned' = NoReturns
         /\ UNCHANGED <<cacheStore, callers, lastKnownOpenClaw>>

\* lines 275-285: the catch block of the stats loader, entered with error.
StatsCatch(id, error) ==
    IF lastKnownOpenClaw # Null
    THEN /\ SettleSuccess(id, DownFromSnapshot(lastKnownOpenClaw))
         /\ UNCHANGED lastKnownOpenClaw
    ELSE /\ loads' = [loads EXCEPT ![id].run =
                Run("awaitLatestRow", NoLoad, Nothing, [error |-> error])]
         /\ returned' = NoReturns
         /\ UNCHANGED <<cacheStore, callers, lastKnownOpenClaw>>

\* lines 247-251 and 275: the stats loader resumes from
\* `await getOpenClawStatusJson()`.
StatsGotStatus(id) ==
    /\ AtPc(id, KEY_STATS, "awaitStatus")
    /\ loads[id].run.inbox # Nothing
    /\ IF loads[id].run.inbox.kind = "value"
       THEN StatsCalls24h(id, "await24h", [status |-> loads[id].run.inbox.value])
       ELSE StatsCatch(id, loads[id].run.inbox.error)
    /\ UNCHANGED <<now, openclawPathPromise>>

\* lines 251-274: the stats loader resumes from `await get24HourTokens()` in
\* the try block: it builds the payload, remembers it and returns it.
StatsGot24h(id) ==
    /\ AtPc(id, KEY_STATS, "await24h")
    /\ loads[id].run.inbox # Nothing
    /\ IF loads[id].run.inbox.kind = "value"
       THEN LET stats == RunningStats(loads[id].run.mem.status,
                                      loads[id].run.inbox.value, now)
            IN /\ lastKnownOpenClaw' = stats
               /\ SettleSuccess(id, stats)
       ELSE StatsCatch(id, loads[id].run.inbox.error)
    /\ UNCHANGED <<now, openclawPathPromise>>

\* lines 285-300: the store answers the latest-row query of the catch block:
\* with a row the loader goes on to get24HourTokens(), without one to
\* getOpenclawPath().
LatestRowQueryDone(id, rows, first) ==
    /\ AtPc(id, KEY_STATS, "awaitLatestRow")
    /\ IF Len(rows) > 0
       THEN /\ StatsCalls24h(id, "await24hFallback",
                             [error |-> loads[id].run.mem.error, last |-> rows[1]])
            /\ UNCHANGED openclawPathPromise
       ELSE /\ loads' = [loads EXCEPT ![id].run.pc = "awaitPathFallback"]
            /\ openclawPathPromise' = GetOpenclawPath(openclawPathPromise, first)
            /\ returned' = NoReturns
            /\ UNCHANGED <<cacheStore, callers, lastKnownOpenClaw>>
    /\ UNCHANGED now

\* lines 288-297: the stats loader resumes from `await get24HourTokens()` in
\* the catch block; a failure there rejects the loader.
StatsGot24hFallback(id) ==
    /\ AtPc(id, KEY_STATS, "await24hFallback")
    /\ loads[id].run.inbox # Nothing
    /\ IF loads[id].run.inbox.kind = "value"
       THEN SettleSuccess(id, DownFromRow(loads[id].run.mem.last,
                                          loads[id].run.inbox.value))
       ELSE SettleFailure(id, loads[id].run.inbox.error)
    /\ UNCHANGED <<now, lastKnownOpenClaw, openclawPathPromise>>

\* lines 300-305: the stats loader resumes from `await getOpenclawPath()`.
StatsGotPath(id) ==
    /\ AtPc(id, KEY_STATS, "awaitPathFallback")
    /\ PathResolved
    /\ SettleSuccess(id, UnknownStats(openclawPathPromise.path,
                                      loads[id].run.mem.error))
    /\ UNCHANGED <<now, lastKnownOpenClaw, openclawPathPromise>>

CandidateIds == 1..Len(Candidates)

\* Under SpecStatus no candidate file exists on disk: the probe tries the bare
\* command name alone, and the CLI is found on the PATH or not at all.
OnPathOnly == {Len(Candidates)}

NextStatus ==
    \/ Tick /\ UNCHANGED httpVars
    \/ \E c \in Callers, first \in OnPathOnly :
          GetOpenClawStats(c, first) /\ UNCHANGED httpVars
    \/ \E c \in Callers :
          Get24HourTokens(c) /\ UNCHANGED httpVars
    \/ ProbeVersionOk /\ UNCHANGED httpVars
    \/ \E next \in CandidateIds :
          ProbeVersionFails(next) /\ UNCHANGED httpVars
    \/ \E id \in LoadIds :
          StatusJsonGotPath(id) /\ UNCHANGED httpVars
    \/ \E id \in LoadIds, status \in CliStatusOutputs :
          CliStatusOk(id, status) /\ UNCHANGED httpVars
    \/ \E id \in LoadIds :
          CliStatusFails(id) /\ UNCHANGED httpVars
    \/ \E id \in LoadIds, answer \in UsageAnswers :
          UsageQueryDone(id, answer) /\ UNCHANGED httpVars
    \/ \E id \in LoadIds :
          StatsGotStatus(id) /\ UNCHANGED httpVars
    \/ \E id \in LoadIds :
          StatsGot24h(id) /\ UNCHANGED httpVars
    \/ \E id \in LoadIds, rows \in LatestRowSets, first \in OnPathOnly :
          LatestRowQueryDone(id, rows, first) /\ UNCHANGED httpVars
    \/ \E id \in LoadIds :
          StatsGot24hFallback(id) /\ UNCHANGED httpVars
    \/ \E id \in LoadIds :
          StatsGotPath(id) /\ UNCHANGED httpVars

\* The status resource: requests for the status and the 24-hour tokens, with
\* the CLI and the store answering or failing at will.
SpecStatus == Init /\ [][NextStatus]_vars


(***************************************************************************)
(* The other cached loaders: history, cron, tokens, connections, process   *)
(* insights and health, with the store and the metrics agent they call.    *)
(***************************************************************************)

\* A JavaScript array held as a cache value.
Array(items) == [items |-> items]

\* A cached handler called by c whose loader, when invoked, stops at its first
\* await in the continuation run.
CallCached(c, key, run) ==
    LET r == WithCache(cacheStore, loads, key, FALSE, run) IN
    /\ callers[c] = Idle
    /\ Serve(c, key, r)
    /\ cacheStore' = r.cache
    /\ loads' = r.loads

\* A cached handler called by c whose loader first awaits
\* getOpenClawStatusJson(), which may start the status load and the path probe.
CallCachedOnStatus(c, key, first) ==
    LET outer == WithCache(cacheStore, loads, key, FALSE, Opaque)
        inner == StatusJsonCall(outer.cache, outer.loads)
    IN
    /\ callers[c] = Idle
    /\ Serve(c, key, outer)
    /\ IF outer.how = "started"
       THEN /\ cacheStore' = inner.cache
            /\ loads' = [inner.loads EXCEPT ![outer.load].run =
                   AwaitRun("awaitStatus", outer.cache, KEY_STATUS_JSON, inner, NoMem)]
            /\ openclawPathPromise' =
                   IF inner.how = "started"
                   THEN GetOpenclawPath(openclawPathPromise, first)
                   ELSE openclawPathPromise
       ELSE UNCHANGED <<cacheStore, loads, openclawPathPromise>>

\* line 318: the range asked for, or '1h' when it is not a key of `ranges`.
NormalizedRange(range) == IF range \in Ranges THEN range ELSE "1h"

\* Mutant of RangeSeconds: every range is given the window of a day.
RangeSeconds_Day(range) == 86400

\* lines 311-317 and 321: ranges[normalizedRange]
RangeSeconds(range) ==
    CASE range = "1h"  -> 3600
      [] range = "8h"  -> 28800
      [] range = "24h" -> 86400
      [] range = "7d"  -> 604800
      [] range = "30d" -> 2592000

\* lines 321-322: the locals of the history loader: the window and the start
\* of it, Math.floor(Date.now() / 1000) - seconds.
HistoryWindow(range, t) ==
    [range |-> range, seconds |-> RangeSeconds(range),
     since |-> (t \div 1000) - RangeSeconds(range)]

\* The rows of `metrics` the model draws from.
MetricAnswers == {DbRows(<<>>), DbRows(<<[timestamp |-> 1]>>)} \cup DbFailures

\* lines 310-323: getHistory(range) called by c.
GetHistory(c, range) ==
    /\ CallCached(c, HistoryKey(NormalizedRange(range)),
                  Run("awaitDb", NoLoad, Nothing,
                      HistoryWindow(NormalizedRange(range), now)))
    /\ UNCHANGED <<now, lastKnownOpenClaw, openclawPathPromise>>

\* lines 323-329: the store answers the history query.
HistoryQueryDone(id, answer) ==
    LET rows == QueryDb(answer, FALSE) IN
    /\ loads[id] # Settled
    /\ loads[id].key \in HistoryKeys
    /\ loads[id].run.pc = "awaitDb"
    /\ IF rows.kind = "value"
       THEN SettleSuccess(id, [range |-> loads[id].run.mem.range,
                               count |-> Len(rows.value), metrics |-> rows.value])
       ELSE SettleFailure(id, [message |-> rows.error])
    /\ UNCHANGED <<now, lastKnownOpenClaw, openclawPathPromise>>

\* lines 358-361: getCronJobs() called by c; its loader stops at
\* `await getOpenclawPath()`.
GetCronJobs(c, first) ==
    LET r == WithCache(cacheStore, loads, KEY_CRON, FALSE,
                       Run("awaitPath", NoLoad, Nothing, NoMem))
    IN
    /\ callers[c] = Idle
    /\ Serve(c, KEY_CRON, r)
    /\ cacheStore' = r.cache
    /\ loads' = r.loads
    /\ openclawPathPromise' =
           IF r.how = "started" THEN GetOpenclawPath(openclawPathPromise, first)
           ELSE openclawPathPromise
    /\ UNCHANGED <<now, lastKnownOpenClaw>>

\* Mutant of CronGotPath: without a CLI the loader throws.
CronGotPath_Throws(id) ==
    /\ AtPc(id, KEY_CRON, "awaitPath")
    /\ PathResolved
    /\ IF openclawPathPromise.path = Null
       THEN SettleFailure(id, NotFoundError)
       ELSE /\ loads' = [loads EXCEPT ![id].run.pc = "awaitCli"]
            /\ returned' = NoReturns
            /\ UNCHANGED <<cacheStore, callers>>
    /\ UNCHANGED <<now, lastKnownOpenClaw, openclawPathPromise>>

\* lines 361-364: the cron loader resumes with the resolved path: no CLI gives
\* [], else it starts `openclaw cron list --json`.
CronGotPath(id) ==
    /\ AtPc(id, KEY_CRON, "awaitPath")
    /\ PathResolved
    /\ IF openclawPathPromise.path = Null
       THEN SettleSuccess(id, Array(<<>>))
       ELSE /\ loads' = [loads EXCEPT ![id].run.pc = "awaitCli"]
            /\ returned' = NoReturns
            /\ UNCHANGED <<cacheStore, callers>>
    /\ UNCHANGED <<now, lastKnownOpenClaw, openclawPathPromise>>

\* What `openclaw cron list --json` ends with: a failure, output without jobs,
\* output with one job that has no name.
CronOutputs ==
    {Thrown("cron list failed"), Ok([none |-> TRUE]),
     Ok([jobs |-> <<[id |-> 1, name |-> Null, enabled |-> TRUE]>>])}

\* lines 365-374: (data.jobs || []).map(...)
CronJobsOf(data) ==
    IF "jobs" \in DOMAIN data
    THEN [i \in 1..Len(data.jobs) |->
            [id |-> data.jobs[i].id,
             name |-> IF data.jobs[i].name = Null THEN "Unnamed" ELSE data.jobs[i].name,
             enabled |-> data.jobs[i].enabled]]
    ELSE <<>>

\* lines 364-377: the cron command ends; every failure gives [].
CronListDone(id, out) ==
    /\ AtPc(id, KEY_CRON, "awaitCli")
    /\ SettleSuccess(id, Array(IF out.kind = "value" THEN CronJobsOf(out.value)
                                ELSE <<>>))
    /\ UNCHANGED <<now, lastKnownOpenClaw, openclawPathPromise>>

\* What a CLI command writes to stdout, as the sequence of its pieces: a piece
\* of text (`brace` tells whether it holds a "{", `blank` whether it is white
\* space only) or the serialisation of a JSON value that starts with "{".
Text(str, brace) == [text |-> str, brace |-> brace, blank |-> FALSE]
Blank            == [text |-> "\n", brace |-> FALSE, blank |-> TRUE]
JsonText(value)  == [json |-> value]

IsJsonPiece(piece) == "json" \in DOMAIN piece

\* result.indexOf('{'): the first piece holding a "{", 0 when there is none.
IndexOfBrace(result) ==
    LET holding == {i \in 1..Len(result) : IsJsonPiece(result[i]) \/ result[i].brace} IN
    IF holding = {} THEN 0 ELSE CHOOSE i \in holding : \A j \in holding : i <= j

\* JSON.parse(str): one JSON value with nothing but white space around it, a
\* SyntaxError otherwise.
JsonParse(str) ==
    LET solid == SelectSeq(str, LAMBDA piece : IsJsonPiece(piece) \/ ~ piece.blank) IN
    IF Len(solid) = 1 /\ IsJsonPiece(solid[1])
    THEN Ok(solid[1].json)
    ELSE Thrown("SyntaxError")

\* Mutant of ParseStatusOutput: the output is parsed as it is.
ParseStatusOutput_NoStrip(result) == JsonParse(result)

\* lines 218-221: the output of the status command, stripped of what precedes
\* the first "{", then parsed.
ParseStatusOutput(result) ==
    LET jsonStart == IndexOfBrace(result)
        jsonStr   == IF jsonStart > 0 THEN SubSeq(result, jsonStart, Len(result))
                     ELSE result
    IN JsonParse(jsonStr)

\* lines 217-221: runCommand of the status command ends with out: the output,
\* or a failure (exit code, timeout).
CliStatusDone(id, out) ==
    LET parsed == IF out.kind = "value" THEN ParseStatusOutput(out.value) ELSE out IN
    IF parsed.kind = "value"
    THEN CliStatusOk(id, parsed.value)
    ELSE CliStatusFails(id)

\* line 365: JSON.parse(result) of the output of the cron command.
ParseCronOutput(result) == JsonParse(result)

\* lines 364-377: runCommand of the cron command ends with out.
CronCommandDone(id, out) ==
    CronListDone(id, IF out.kind = "value" THEN ParseCronOutput(out.value) ELSE out)

\* lines 381-384: getTokenBreakdown() called by c.
GetTokenBreakdown(c, first) ==
    /\ CallCachedOnStatus(c, KEY_TOKENS, first)
    /\ UNCHANGED <<now, lastKnownOpenClaw>>

\* Math.round(n / d) for n >= 0 and d > 0.
RoundDiv(n, d) == (2 * n + d) \div (2 * d)

\* lines 334-339: PRICING, in dollars per million tokens.
PRICING ==
    [family \in {"claude-opus-4-5", "claude-sonnet-4", "claude-3-5-sonnet", "default"} |->
        CASE family = "claude-opus-4-5"   -> [input |-> 15, output |-> 75]
          [] family = "claude-sonnet-4"   -> [input |-> 3, output |-> 15]
          [] family = "claude-3-5-sonnet" -> [input |-> 3, output |-> 15]
          [] family = "default"           -> [input |-> 15, output |-> 75]]

\* A string is held as the sequence of its characters where the program looks
\* into it.  The words the model names are made of:
W_CLAUDE  == <<"c", "l", "a", "u", "d", "e">>
W_OPUS    == <<"o", "p", "u", "s">>
W_SONNET  == <<"s", "o", "n", "n", "e", "t">>
W_DEFAULT == <<"d", "e", "f", "a", "u", "l", "t">>
W_4_5     == <<"4", "-", "5">>
W_3_5     == <<"3", "-", "5">>
W_3DOT5   == <<"3", ".", "5">>
DASH      == <<"-">>

\* The needles of lines 344-346.
OPUS_4_5    == W_OPUS \o DASH \o W_4_5
SONNET_4    == W_SONNET \o DASH \o <<"4">>
S3_5_SONNET == W_3_5 \o DASH \o W_SONNET
S3DOT5_SONNET == W_3DOT5 \o DASH \o W_SONNET

\* String.prototype.toLowerCase, on the capitals the model names hold.
LowerChar(ch) ==
    CASE ch = "C" -> "c" [] ch = "O" -> "o" [] ch = "S" -> "s" [] OTHER -> ch

ToLowerCase(str) == [i \in 1..Len(str) |-> LowerChar(str[i])]

\* String.prototype.includes
StrIncludes(str, needle) ==
    \E i \in 1..(Len(str) - Len(needle) + 1) :
        SubSeq(str, i, i + Len(needle) - 1) = needle

\* Mutant of ResolvePricing: the name is compared as it is written.
ResolvePricing_CaseSensitive(model) ==
    LET family == IF StrIncludes(model, OPUS_4_5) THEN "claude-opus-4-5"
                  ELSE IF StrIncludes(model, SONNET_4) THEN "claude-sonnet-4"
                  ELSE IF StrIncludes(model, S3_5_SONNET)
                          \/ StrIncludes(model, S3DOT5_SONNET) THEN "claude-3-5-sonnet"
                  ELSE "default"
    IN [modelFamily |-> family, pricing |-> PRICING[family]]

\* lines 341-356: resolvePricing(model)
ResolvePricing(model) ==
    LET normalized == ToLowerCase(model)
        family == IF StrIncludes(normalized, OPUS_4_5) THEN "claude-opus-4-5"
                  ELSE IF StrIncludes(normalized, SONNET_4) THEN "claude-sonnet-4"
                  ELSE IF StrIncludes(normalized, S3_5_SONNET)
                          \/ StrIncludes(normalized, S3DOT5_SONNET) THEN "claude-3-5-sonnet"
                  ELSE "default"
    IN [modelFamily |-> family, pricing |-> PRICING[family]]

\* line 387: recent[0]?.model || status.sessions?.defaults?.model || 'default'
\* (a missing or empty name is <<>>).
ModelOf(status) ==
    LET recent == status.sessions.recent
        first  == IF Len(recent) > 0 /\ "model" \in DOMAIN recent[1]
                  THEN recent[1].model ELSE <<>>
        dflt   == IF "defaults" \in DOMAIN status.sessions
                  THEN status.sessions.defaults.model ELSE <<>>
    IN IF first # <<>> THEN first ELSE IF dflt # <<>> THEN dflt ELSE W_DEFAULT

ESTIMATED_LABEL   == "Estimated from total tokens (25% input / 75% output split)"
UNAVAILABLE_LABEL == "Estimate unavailable (OpenClaw status not reachable)"

\* Mutant of Breakdown: the shares are rounded down.
Breakdown_Floor(status) ==
    LET totalTokens == TotalTokens(status)
        resolved    == ResolvePricing(ModelOf(status))
    IN
    [input |-> totalTokens \div 4, output |-> (3 * totalTokens) \div 4,
     total |-> totalTokens, model |-> ModelOf(status),
     pricingModel |-> resolved.modelFamily, estimated |-> TRUE,
     estimateLabel |-> ESTIMATED_LABEL,
     cost |-> [input |-> (totalTokens \div 4) * resolved.pricing.input,
               output |-> ((3 * totalTokens) \div 4) * resolved.pricing.output,
               total |-> (totalTokens \div 4) * resolved.pricing.input
                           + ((3 * totalTokens) \div 4) * resolved.pricing.output,
               currency |-> "USD"]]

\* lines 385-409: the breakdown estimated from the status.  The costs,
\* (tokens / 1000000) * rate, are held in millionths of a dollar.
Breakdown(status) ==
    LET totalTokens     == TotalTokens(status)
        estimatedInput  == RoundDiv(totalTokens, 4)
        estimatedOutput == RoundDiv(3 * totalTokens, 4)
        resolved        == ResolvePricing(ModelOf(status))
        inputCost       == estimatedInput * resolved.pricing.input
        outputCost      == estimatedOutput * resolved.pricing.output
    IN
    [input |-> estimatedInput, output |-> estimatedOutput, total |-> totalTokens,
     model |-> ModelOf(status), pricingModel |-> resolved.modelFamily,
     estimated |-> TRUE, estimateLabel |-> ESTIMATED_LABEL,
     cost |-> [input |-> inputCost, output |-> outputCost,
               total |-> inputCost + outputCost, currency |-> "USD"]]

\* lines 411-418
NoBreakdown ==
    [input |-> 0, output |-> 0, total |-> 0, estimated |-> TRUE,
     estimateLabel |-> UNAVAILABLE_LABEL, cost |-> [total |-> 0, currency |-> "USD"]]

\* Mutant of TokensGotStatus: a failed status call rejects the loader.
TokensGotStatus_Throws(id) ==
    /\ AtPc(id, KEY_TOKENS, "awaitStatus")
    /\ loads[id].run.inbox # Nothing
    /\ IF loads[id].run.inbox.kind = "value"
       THEN SettleSuccess(id, Breakdown(loads[id].run.inbox.value))
       ELSE SettleFailure(id, loads[id].run.inbox.error)
    /\ UNCHANGED <<now, lastKnownOpenClaw, openclawPathPromise>>

\* lines 384-419: the tokens loader resumes from `await getOpenClawStatusJson()`.
TokensGotStatus(id) ==
    /\ AtPc(id, KEY_TOKENS, "awaitStatus")
    /\ loads[id].run.inbox # Nothing
    /\ SettleSuccess(id, IF loads[id].run.inbox.kind = "value"
                         THEN Breakdown(loads[id].run.inbox.value)
                         ELSE NoBreakdown)
    /\ UNCHANGED <<now, lastKnownOpenClaw, openclawPathPromise>>

\* lines 423-426: getConnections() called by c.
GetConnections(c) ==
    /\ CallCached(c, KEY_CONNECTIONS, Run("awaitLsof", NoLoad, Nothing, NoMem))
    /\ UNCHANGED <<now, lastKnownOpenClaw, openclawPathPromise>>

\* What `lsof -i -P` ends with, already filtered to its remote connections.
LsofOutputs ==
    {Thrown("lsof failed"), Ok(<<>>),
     Ok(<<[process |-> "node", host |-> "203.0.113.7", port |-> 443]>>)}

\* lines 426-450: the lsof command ends; a failure gives [].
LsofDone(id, out) ==
    /\ AtPc(id, KEY_CONNECTIONS, "awaitLsof")
    /\ SettleSuccess(id, Array(IF out.kind = "value" THEN out.value ELSE <<>>))
    /\ UNCHANGED <<now, lastKnownOpenClaw, openclawPathPromise>>


\* A line of `lsof -i -P`: the command name (parts[0]), whether the line holds
\* "ESTABLISHED", and the part of its first token with "->" that follows the
\* arrow, as the fields the colons separate (<<>> when no token has an arrow).
\* A field is the sequence of the fragments of its text.
LsofLine(process, remote, established) ==
    [process |-> process, remote |-> remote, established |-> established]

\* The texts of decimal digits the model's lines hold, with parseInt of each.
PortNumbers ==
    [digits \in {"53", "80", "443", "4860", "5432", "8443"} |->
        CASE digits = "53" -> 53 [] digits = "80" -> 80 [] digits = "443" -> 443
          [] digits = "4860" -> 4860 [] digits = "5432" -> 5432
          [] digits = "8443" -> 8443]

\* line 435: connection.match(/->([^:]+):(\d+)/): the first field is not
\* empty and the second starts with digits.
ArrowMatch(line) ==
    IF /\ Len(line.remote) >= 2
       /\ line.remote[1] # <<>>
       /\ line.remote[2] # <<>>
       /\ line.remote[2][1] \in DOMAIN PortNumbers
    THEN [matched |-> TRUE, host |-> line.remote[1], port |-> line.remote[2][1]]
    ELSE [matched |-> FALSE]

\* Mutant of IsLocalHost: nothing is taken for local.
IsLocalHost_Never(host) == FALSE

\* line 440: host.includes('localhost') || host.includes('127.0.0.1') ||
\* host === '::1'
IsLocalHost(host) ==
    \/ Includes(host, "localhost")
    \/ Includes(host, "127.0.0.1")
    \/ host = <<"::1">>

PUSH_LIMIT == 20

CONNECTION_LIMIT == 10

RECURSIVE CollectConnections(_, _)
\* lines 430-444: the loop over the lines, with what was pushed so far.
CollectConnections(lines, connections) ==
    IF lines = <<>> THEN connections
    ELSE LET line  == Head(lines)
             match == ArrowMatch(line)
         IN
         IF ~ line.established \/ ~ match.matched \/ IsLocalHost(match.host)
         THEN CollectConnections(Tail(lines), connections)
         ELSE LET pushed == Append(connections,
                               [process |-> line.process, host |-> match.host,
                                port |-> PortNumbers[match.port]])
              IN IF Len(pushed) >= PUSH_LIMIT THEN pushed
                 ELSE CollectConnections(Tail(lines), pushed)

\* line 446: the key `${c.process}-${c.host}`, as the sequence of its fragments.
ConnectionKey(c) == <<c.process, "-">> \o c.host

\* line 446: [...new Map(connections.map(c => [key, c])).values()]: a key keeps
\* the place of its first connection and the value of its last.
UniqueConnections(connections) ==
    LET firsts == SelectSeq([i \in 1..Len(connections) |-> i],
                            LAMBDA i : \A j \in 1..(i - 1) :
                                ConnectionKey(connections[j]) # ConnectionKey(connections[i]))
        LastOf(i) == CHOOSE j \in 1..Len(connections) :
                        /\ ConnectionKey(connections[j]) = ConnectionKey(connections[i])
                        /\ \A k \in (j + 1)..Len(connections) :
                              ConnectionKey(connections[k]) # ConnectionKey(connections[i])
    IN [n \in 1..Len(firsts) |-> connections[LastOf(firsts[n])]]

\* lines 427-447: the connections of the output of lsof.
ParseConnections(lines) ==
    Slice(UniqueConnections(CollectConnections(lines, <<>>)), CONNECTION_LIMIT)

\* lines 426-450: runCommand of lsof ends with out: the lines, or a failure.
LsofCommandDone(id, out) ==
    LsofDone(id, IF out.kind = "value" THEN Ok(ParseConnections(out.value)) ELSE out)

\* How the header phase of a fetch ends: a 2xx response, another status, or no
\* response (connection refused, or aborted by the timer of fetchWithTimeout).
HeaderOutcomes == {"ok", "status", "failed"}

\* How the body phase ends: the body was read, or the stream broke.
BodyOutcomes == {"read", "failed"}

\* lines 160-164: fetchWithTimeout() up to `await fetch(...)`: the abort timer
\* is armed.
FetchStarted(mem) == Run("awaitFetch", NoLoad, Nothing, [mem EXCEPT !.timer = TRUE])

\* lines 164-166 and 175: fetch resolved with the response headers: the finally
\* block clears the timer, and the caller goes on to read the body.
FetchResolved(mem) == Run("awaitBody", NoLoad, Nothing, [mem EXCEPT !.timer = FALSE])

\* lines 59-80: the `timeout` option that runCommand hands to execFile for the
\* subprocess a loader of `key` waits for at pc (lines 125, 203, 217, 364 and
\* 426; "awaitVersion" is the version probe of getOpenclawPath); execFile kills
\* the subprocess and reports an error when it expires.
CommandTimeoutMs(key, pc) ==
    CASE pc = "awaitCli" /\ key = KEY_STATUS_JSON -> 15000
      [] pc = "awaitCli" /\ key = KEY_CRON        -> 10000
      [] OTHER                                     -> 5000

\* The suspension points at which a loader waits for a subprocess or for the
\* metrics agent.
SubprocessPcs == {"awaitCli", "awaitDb", "awaitLatestRow", "awaitLsof"}
FetchPcs      == {"awaitFetch", "awaitBody"}

\* The operation the loader run of `key` waits for is abandoned by a timer of
\* the program if it does not end: the execFile timeout of a subprocess, or the
\* abort timer of fetchWithTimeout while it is armed.
HasDeadline(key, run) ==
    CASE run.pc \in SubprocessPcs -> CommandTimeoutMs(key, run.pc) > 0
      [] run.pc \in FetchPcs      -> run.mem.timer
      [] OTHER                     -> TRUE

\* A process of the metrics agent's processlist.  CPU percentages are held in
\* hundredths of a percent and memory in bytes; a missing name is "" and a
\* missing cpu_percent or memory_info.rss is 0.
Process(name, cpu_percent, rss) ==
    [name |-> name, cpu_percent |-> cpu_percent, memory_info |-> [rss |-> rss]]

\* n percent in hundredths of a percent, and n mebibytes in bytes.
Percent(n) == n * 100
MiB(n)     == n * 1024 * 1024

\* The parsed body of the metrics agent's processlist.
ProcessList == Array(<<Process("node", Percent(3), MiB(80))>>)

\* Array.isArray-like test of line 577: procs.sort exists only on an array.
IsArray(v) == "items" \in DOMAIN v

\* line 577: sorted with p placed behind every element whose cpu_percent is not
\* smaller (Array.prototype.sort is stable).
InsertByCpu(sorted, p) ==
    LET ahead == {i \in 1..Len(sorted) : sorted[i].cpu_percent >= p.cpu_percent}
        k     == IF ahead = {} THEN 0 ELSE CHOOSE i \in ahead : \A j \in ahead : j <= i
    IN SubSeq(sorted, 1, k) \o <<p>> \o SubSeq(sorted, k + 1, Len(sorted))

RECURSIVE SortByCpu(_)
\* line 577: procs.sort((a, b) => (b.cpu_percent || 0) - (a.cpu_percent || 0))
SortByCpu(procs) ==
    IF procs = <<>> THEN <<>>
    ELSE InsertByCpu(SortByCpu(SubSeq(procs, 1, Len(procs) - 1)), procs[Len(procs)])

TOP_CUT == 10

SHOWN_LIMIT == 8

\* Mutant of CurrentProc: the current CPU is taken as zero.
CurrentProc_NoCpu(p) ==
    [name |-> IF p.name = "" THEN "unknown" ELSE p.name, cpu |-> 0,
     ram_mb |-> p.memory_info.rss]

\* lines 578, 582-586: the entry pushed for p; ram_mb, rss / (1024 * 1024), is
\* held as the number of bytes.
CurrentProc(p) ==
    [name |-> IF p.name = "" THEN "unknown" ELSE p.name, cpu |-> p.cpu_percent,
     ram_mb |-> p.memory_info.rss]

RECURSIVE DedupeByName(_, _)
\* lines 575-587: the loop over the cut, skipping the names already seen.
DedupeByName(procs, seen) ==
    IF procs = <<>> THEN <<>>
    ELSE LET p == CurrentProc(procs[1]) IN
         IF p.name \in seen THEN DedupeByName(Tail(procs), seen)
         ELSE <<p>> \o DedupeByName(Tail(procs), seen \cup {p.name})

\* Mutant of CurrentProcs: the names are de-duplicated before the cut.
CurrentProcs_DedupeFirst(result) ==
    IF result.kind = "value" /\ IsArray(result.value)
    THEN Slice(DedupeByName(SortByCpu(result.value.items), {}), TOP_CUT)
    ELSE <<>>

\* lines 572-590: currentProcs after the try block: a failure of
\* fetchGlancesJson, or of procs.sort on a body that is no array, is ignored.
CurrentProcs(result) ==
    IF result.kind = "value" /\ IsArray(result.value)
    THEN DedupeByName(Slice(SortByCpu(result.value.items), TOP_CUT), {})
    ELSE <<>>

\* The samples process_metrics holds of one name in the last 24 hours, as the
\* GROUP BY of lines 594-600 aggregates them: the mean CPU in hundredths of a
\* percent, the mean RAM (of ram_mb) in bytes and the number of samples.
Group(name, avg_cpu, avg_ram, samples) ==
    [name |-> name, avg_cpu |-> avg_cpu, avg_ram |-> avg_ram, samples |-> samples]

MIN_SAMPLES == 5

\* Mutant of AveragesQuery: every group qualifies.
AveragesQuery_NoHaving(groups) == groups

\* lines 594-602: the rows of the averages query: HAVING samples > 5.
AveragesQuery(groups) ==
    SelectSeq(groups, LAMBDA g : g.samples > MIN_SAMPLES)

\* The names every object inherits a property for (a sample of them).
ObjectPrototypeNames == {"constructor", "toString", "__proto__"}

\* An inherited property: a truthy value with no cpu and no ram.
Inherited == [inherited |-> TRUE]

NaN == [nan |-> TRUE]

\* A number in a field that may also hold null or NaN.
Number(n) == [number |-> n]

\* lines 604-607 and 610: avgMap[proc.name], avgMap being a plain object filled
\* from the rows.
Hist(historicalAvg, name) ==
    LET rows == {i \in 1..Len(historicalAvg) : historicalAvg[i].name = name} IN
    IF rows # {}
    THEN LET row == historicalAvg[CHOOSE i \in rows : \A j \in rows : j <= i] IN
         [cpu |-> row.avg_cpu, ram |-> row.avg_ram, samples |-> row.samples]
    ELSE IF name \in ObjectPrototypeNames THEN Inherited
    ELSE Undefined

\* Mutant of Anomaly: the RAM test comes first.
Anomaly_RamFirst(proc, hist) ==
    IF hist = Undefined \/ hist = Inherited THEN "null"
    ELSE IF hist.ram > MiB(50) /\ 2 * proc.ram_mb > 3 * hist.ram THEN "ram_high"
    ELSE IF hist.cpu > Percent(1) /\ proc.cpu > hist.cpu * 2 THEN "cpu_high"
    ELSE "null"

\* lines 617, 620-626: insight.anomaly ("null" for null); of an inherited
\* property hist.cpu and hist.ram are undefined and both tests fail.
Anomaly(proc, hist) ==
    IF hist = Undefined \/ hist = Inherited THEN "null"
    ELSE IF hist.cpu > Percent(1) /\ proc.cpu > hist.cpu * 2 THEN "cpu_high"
    ELSE IF hist.ram > MiB(50) /\ 2 * proc.ram_mb > 3 * hist.ram THEN "ram_high"
    ELSE "null"

\* lines 609-629: the insight of proc: cpu rounded to a tenth of a percent,
\* ram_mb rounded to a megabyte, the averages rounded likewise, or null
\* without hist, or NaN when hist is an inherited property.
Insight(proc, hist) ==
    [name |-> proc.name,
     cpu |-> RoundDiv(proc.cpu, 10) * 10,
     ram_mb |-> RoundDiv(proc.ram_mb, MiB(1)),
     avg_cpu |-> IF hist = Undefined THEN Null
                 ELSE IF hist = Inherited THEN NaN
                 ELSE Number(RoundDiv(hist.cpu, 10) * 10),
     avg_ram |-> IF hist = Undefined THEN Null
                 ELSE IF hist = Inherited THEN NaN
                 ELSE Number(RoundDiv(hist.ram, MiB(1))),
     anomaly |-> Anomaly(proc, hist)]

\* Mutant of ProcessInsights: every insight is listed as an anomaly.
ProcessInsights_AllListed(currentProcs, historicalAvg) ==
    LET insights == [i \in 1..Len(currentProcs) |->
                        Insight(currentProcs[i], Hist(historicalAvg, currentProcs[i].name))]
    IN [processes |-> Slice(insights, SHOWN_LIMIT),
        anomalies |-> insights,
        hasHistory |-> Len(historicalAvg) > 0]

\* lines 609-637: the result of the loader.
ProcessInsights(currentProcs, historicalAvg) ==
    LET insights == [i \in 1..Len(currentProcs) |->
                        Insight(currentProcs[i], Hist(historicalAvg, currentProcs[i].name))]
    IN [processes |-> Slice(insights, SHOWN_LIMIT),
        anomalies |-> SelectSeq(insights, LAMBDA i : i.anomaly # "null"),
        hasHistory |-> Len(historicalAvg) > 0]

\* lines 570-574: getProcessInsights() called by c; its loader stops in
\* fetchGlancesJson('processlist').
GetProcessInsights(c) ==
    /\ CallCached(c, KEY_PROCESSES, FetchStarted([timer |-> FALSE]))
    /\ UNCHANGED <<now, lastKnownOpenClaw, openclawPathPromise>>

\* lines 574-602: fetchGlancesJson ended with result (a failure is ignored):
\* the loader goes on to the store.
ProcessesAfterGlances(id, result) ==
    /\ loads' = [loads EXCEPT ![id].run =
           Run("awaitDb", NoLoad, Nothing, [procs |-> CurrentProcs(result)])]
    /\ returned' = NoReturns
    /\ UNCHANGED <<cacheStore, callers, openclawPathPromise>>

\* The answers to the averages query the model draws from.
AverageAnswers ==
    {DbRows(AveragesQuery(<<>>)),
     DbRows(AveragesQuery(<<Group("node", Percent(1), MiB(60), 6)>>))}
       \cup DbFailures

\* lines 593-637: the store answers the averages query.
ProcessHistoryDone(id, answer) ==
    LET historicalAvg == QueryDb(answer, FALSE) IN
    /\ AtPc(id, KEY_PROCESSES, "awaitDb")
    /\ IF historicalAvg.kind = "value"
       THEN SettleSuccess(id, ProcessInsights(loads[id].run.mem.procs,
                                              historicalAvg.value))
       ELSE SettleFailure(id, [message |-> historicalAvg.error])
    /\ UNCHANGED <<now, lastKnownOpenClaw, openclawPathPromise>>

\* lines 454-466: getHealthStatus() called by c; its loader stops at the store
\* probe.
GetHealthStatus(c) ==
    /\ CallCached(c, KEY_HEALTH, Run("awaitDb", NoLoad, Nothing, NoMem))
    /\ UNCHANGED <<now, lastKnownOpenClaw, openclawPathPromise>>

\* Mutant of HealthDatabase: a missing table counts as a failure.
HealthDatabase_Strict(result) ==
    IF result.kind = "value"
    THEN [degraded |-> FALSE,
          check |-> [ok |-> TRUE, hasData |-> Len(result.value) > 0]]
    ELSE [degraded |-> TRUE, check |-> [ok |-> FALSE, error |-> result.error]]

\* lines 465-492: checks.database and the degraded flag for the result of the
\* store probe.
HealthDatabase(result) ==
    IF result.kind = "value"
    THEN [degraded |-> FALSE,
          check |-> [ok |-> TRUE, hasData |-> Len(result.value) > 0]]
    ELSE IF Includes(result.error, NO_SUCH_TABLE)
    THEN [degraded |-> FALSE,
          check |-> [ok |-> TRUE, initialized |-> FALSE, hasData |-> FALSE]]
    ELSE [degraded |-> TRUE, check |-> [ok |-> FALSE, error |-> result.error]]

\* lines 466-496: the store answers the probe (throwOnError is set); the loader
\* goes on to fetchGlancesJson('cpu').
HealthDbDone(id, answer) ==
    LET database == HealthDatabase(QueryDb(answer, TRUE)) IN
    /\ AtPc(id, KEY_HEALTH, "awaitDb")
    /\ loads' = [loads EXCEPT ![id].run =
           FetchStarted([timer |-> FALSE, degraded |-> database.degraded,
                         checks |-> [database |-> database.check]])]
    /\ returned' = NoReturns
    /\ UNCHANGED <<now, cacheStore, callers, lastKnownOpenClaw, openclawPathPromise>>

\* lines 495-508: checks.glances and the degraded flag.
HealthGlances(result) ==
    IF result.kind = "value"
    THEN [degraded |-> FALSE, check |-> [ok |-> TRUE]]
    ELSE [degraded |-> TRUE, check |-> [ok |-> FALSE, error |-> result.error]]

\* lines 496-511: fetchGlancesJson ended with result; the loader goes on to
\* `await getOpenclawPath()`.
HealthAfterGlances(id, result, first) ==
    LET glances == HealthGlances(result)
        mem     == loads[id].run.mem
    IN
    /\ loads' = [loads EXCEPT ![id].run =
           Run("awaitPath", NoLoad, Nothing,
               [degraded |-> mem.degraded \/ glances.degraded,
                checks |-> [database |-> mem.checks.database,
                            glances |-> glances.check]])]
    /\ openclawPathPromise' = GetOpenclawPath(openclawPathPromise, first)
    /\ returned' = NoReturns
    /\ UNCHANGED <<cacheStore, callers>>

\* The continuation of the loader of promise id after fetchGlancesJson.
AfterGlances(id, result, first) ==
    IF loads[id].key = KEY_HEALTH
    THEN HealthAfterGlances(id, result, first)
    ELSE ProcessesAfterGlances(id, result)

\* lines 171-174: the header phase of fetchGlancesJson ends.
GlancesHeaders(id, outcome, first) ==
    /\ loads[id] # Settled
    /\ loads[id].run.pc = "awaitFetch"
    /\ IF outcome = "ok"
       THEN /\ loads' = [loads EXCEPT ![id].run = FetchResolved(loads[id].run.mem)]
            /\ returned' = NoReturns
            /\ UNCHANGED <<cacheStore, callers, openclawPathPromise>>
       ELSE AfterGlances(id, Thrown(IF outcome = "status"
                                    THEN "Glances returned 503"
                                    ELSE "fetch failed"), first)
    /\ UNCHANGED <<now, lastKnownOpenClaw>>

\* line 175: response.json() ends with result: the parsed body, or a failure.
GlancesJson(id, result, first) ==
    /\ loads[id] # Settled
    /\ loads[id].run.pc = "awaitBody"
    /\ AfterGlances(id, result, first)
    /\ UNCHANGED <<now, lastKnownOpenClaw>>

\* line 175: response.json() ends: with the body of the endpoint asked for, or
\* with a broken stream.
GlancesBody(id, outcome, first) ==
    GlancesJson(id, IF outcome = "read"
                    THEN Ok(IF loads[id].key = KEY_HEALTH
                            THEN [total |-> 3] ELSE ProcessList)
                    ELSE Thrown("terminated"), first)

\* lines 538-542: the health payload (uptime, latencies and timestamp left out).
HealthPayload(degraded, checks) ==
    [status |-> IF degraded THEN "degraded" ELSE "ok", checks |-> checks]

\* lines 511-521: the health loader resumes with the resolved path: without a
\* CLI it is done, else it calls getOpenClawStatusJson().
HealthGotPath(id) ==
    LET mem == loads[id].run.mem
        r   == StatusJsonCall(cacheStore, loads)
    IN
    /\ AtPc(id, KEY_HEALTH, "awaitPath")
    /\ PathResolved
    /\ IF openclawPathPromise.path = Null
       THEN SettleSuccess(id, HealthPayload(mem.degraded,
                [database |-> mem.checks.database, glances |-> mem.checks.glances,
                 openclaw |-> [ok |-> TRUE, installed |-> FALSE, optional |-> TRUE]]))
       ELSE /\ cacheStore' = r.cache
            /\ loads' = [r.loads EXCEPT ![id].run =
                   AwaitRun("awaitStatus", cacheStore, KEY_STATUS_JSON, r, mem)]
            /\ returned' = NoReturns
            /\ UNCHANGED callers
    /\ UNCHANGED <<now, lastKnownOpenClaw, openclawPathPromise>>

\* lines 520-535: checks.openclaw and the degraded flag for an installed CLI.
HealthOpenclaw(outcome) ==
    IF outcome.kind = "value"
    THEN [degraded |-> FALSE, check |-> [ok |-> TRUE, installed |-> TRUE]]
    ELSE [degraded |-> TRUE,
          check |-> [ok |-> FALSE, installed |-> TRUE, error |-> outcome.error]]

\* lines 521-542: the health loader resumes from `await getOpenClawStatusJson()`.
HealthGotStatus(id) ==
    LET mem      == loads[id].run.mem
        openclaw == HealthOpenclaw(loads[id].run.inbox)
    IN
    /\ AtPc(id, KEY_HEALTH, "awaitStatus")
    /\ loads[id].run.inbox # Nothing
    /\ SettleSuccess(id, HealthPayload(mem.degraded \/ openclaw.degraded,
            [database |-> mem.checks.database, glances |-> mem.checks.glances,
             openclaw |-> openclaw.check]))
    /\ UNCHANGED <<now, lastKnownOpenClaw, openclawPathPromise>>


(***************************************************************************)
(* The HTTP front door: request headers, URLs and responses.               *)
(*                                                                         *)
(* A header value is the sequence of its tokens ("http", ":", "//", a host *)
(* label, "[", "]", a port), so that the code's own string operations      *)
(* (split(':')[0], new URL(...).hostname) are computed rather than assumed.*)
(* A request target is the sequence of the segments that follow each "/".  *)
(* An absent header and the empty string are both <<>> (the code tests     *)
(* them alike, by truthiness); an absent query parameter or content type   *)
(* is "".                                                                  *)
(***************************************************************************)

\* line 33
ALLOWED_GLANCES_ENDPOINTS ==
    {"cpu", "mem", "fs", "load", "network", "processlist", "uptime"}

\* The position of the first token tok of seq, or 0.
IndexOf(seq, tok) ==
    IF \E i \in 1..Len(seq) : seq[i] = tok
    THEN CHOOSE i \in 1..Len(seq) :
            seq[i] = tok /\ \A j \in 1..(i - 1) : seq[j] # tok
    ELSE 0

\* line 148: (req.headers.host || '').split(':')[0]
RequestHost(host) ==
    IF IndexOf(host, ":") = 0 THEN host
    ELSE SubSeq(host, 1, IndexOf(host, ":") - 1)

\* line 147: new URL(origin).hostname, or <<>> when the constructor throws.  A
\* URL is scheme ":" "//" host [":" port]; an IPv6 host is bracketed and its
\* hostname keeps the brackets.
OriginHostname(origin) ==
    IF Len(origin) < 4 \/ origin[2] # ":" \/ origin[3] # "//" THEN <<>>
    ELSE IF origin[4] = "["
    THEN IF IndexOf(origin, "]") = 0 THEN <<>>
         ELSE SubSeq(origin, 4, IndexOf(origin, "]"))
    ELSE IF origin[4] \in {":", "]", "//"} THEN <<>>
    ELSE <<origin[4]>>

\* getAllowedOrigin returning null: no origin is allowed.
NoOrigin == <<>>

\* line 149: the Set localHosts ('localhost', '127.0.0.1', '::1', '[::1]').
LocalHosts ==
    {<<"localhost">>, <<"127.0.0.1">>, <<":", ":", "1">>,
     <<"[", ":", ":", "1", "]">>}

\* lines 142-158: getAllowedOrigin(req)
GetAllowedOrigin(origin, host) ==
    IF origin = <<>> THEN NoOrigin
    ELSE IF OriginHostname(origin) = <<>> THEN NoOrigin
    ELSE IF OriginHostname(origin) \in LocalHosts THEN origin
    ELSE IF RequestHost(host) # <<>> /\ OriginHostname(origin) = RequestHost(host)
    THEN origin
    ELSE NoOrigin

\* A request target: the segments of its path and the value of its `range`
\* query parameter ("" when there is none).  "/api/quote" is <<"api",
\* "quote">>, "/" is <<"">>, "//" is <<"", "">>.
Target(path, range) == [path |-> path, range |-> range]

\* line 662: new URL(req.url, `http://localhost:${PORT}`).  A target that
\* starts with "//" names its own authority: the constructor throws when the
\* authority is empty, and the path is what follows it otherwise.
ParseUrl(target) ==
    IF Len(target.path) >= 2 /\ target.path[1] = ""
    THEN IF target.path[2] = ""
         THEN [ok |-> FALSE]
         ELSE [ok |-> TRUE,
               pathname |-> IF Len(target.path) = 2 THEN <<"">>
                            ELSE SubSeq(target.path, 3, Len(target.path)),
               range |-> target.range]
    ELSE [ok |-> TRUE, pathname |-> target.path, range |-> target.range]

\* pathname.startsWith('/' + prefix + '/')
StartsWith(pathname, prefix) ==
    /\ Len(pathname) > Len(prefix)
    /\ SubSeq(pathname, 1, Len(prefix)) = prefix

\* lines 663-667: the rest of the path after the glances prefix (<<"">> when
\* nothing follows it), or <<>> for null.
GlancesPath(pathname) ==
    IF StartsWith(pathname, <<"api", "glances">>)
    THEN SubSeq(pathname, 3, Len(pathname))
    ELSE IF StartsWith(pathname, <<"glances">>)
    THEN SubSeq(pathname, 2, Len(pathname))
    ELSE <<>>

\* line 669: if (glancesPath): neither null nor the empty string.
Truthy(glancesPath) == glancesPath # <<>> /\ glancesPath # <<"">>

\* Mutant of IsAllowedEndpoint: the first segment decides.
IsAllowedEndpoint_FirstSegment(endpoint) ==
    endpoint[1] \in ALLOWED_GLANCES_ENDPOINTS

\* line 179: ALLOWED_GLANCES_ENDPOINTS.has(endpoint)
IsAllowedEndpoint(endpoint) ==
    Len(endpoint) = 1 /\ endpoint[1] \in ALLOWED_GLANCES_ENDPOINTS

\* lines 675-697: the resource a pathname names, each at a bare path and at
\* its /api/ alias.
RouteOf(pathname) ==
    LET bare == IF Len(pathname) >= 1 /\ pathname[1] = "api"
                THEN SubSeq(pathname, 2, Len(pathname)) ELSE pathname
    IN
    CASE bare = <<"openclaw">>            -> "openclaw"
      [] bare = <<"openclaw", "history">> -> "openclaw/history"
      [] bare = <<"history">>             -> "history"
      [] bare = <<"cron">>                -> "cron"
      [] bare = <<"tokens">>              -> "tokens"
      [] bare = <<"connections">>         -> "connections"
      [] bare = <<"quote">>               -> "quote"
      [] bare = <<"processes">>           -> "processes"
      [] bare = <<"health">>              -> "health"
      [] OTHER                            -> "none"

\* req: what the handler reads of a request.
Request(method, target, origin, host) ==
    [method |-> method, url |-> target, origin |-> origin, host |-> host]

JSON_CONTENT_TYPE == "application/json; charset=utf-8"

\* What was written to res: the status line, the Content-Type ("" when
\* absent) and Access-Control-Allow-Origin (NoOrigin when absent) headers and
\* the body (Null when empty).  `req`
\* is the request it answers and `upstream` the metrics agent's response it
\* relays (Null when it relays none).
Response(req, allowedOrigin, statusCode, contentType, body, upstream) ==
    [req |-> req, status |-> statusCode, contentType |-> contentType,
     acao |-> allowedOrigin, body |-> body, upstream |-> upstream]

\* lines 137-140: sendJson(res, statusCode, payload)
SendJson(req, allowedOrigin, statusCode, payload) ==
    Response(req, allowedOrigin, statusCode, JSON_CONTENT_TYPE,
             [json |-> payload], Null)

\* The handler of req suspended at `await <handler>()` of the dispatch; the
\* promise it awaits is callers[c].
AwaitingHandler(req, allowedOrigin, route) ==
    [stage |-> "awaitHandler", req |-> req, allowedOrigin |-> allowedOrigin,
     route |-> route]

\* The handler of req suspended in proxyGlancesEndpoint, at `await
\* fetchWithTimeout(...)` (phase "headers") or at `await response.text()`
\* (phase "body"); `timer` tells whether the abort timer of fetchWithTimeout is
\* armed and `response` is the upstream response once its headers arrived.
Proxying(req, allowedOrigin, endpoint, phase, timer, response) ==
    [stage |-> "proxy", req |-> req, allowedOrigin |-> allowedOrigin,
     endpoint |-> endpoint, phase |-> phase, timer |-> timer,
     response |-> response]

\* The promise returned by the handler of req rejected: nothing was written to
\* res and nothing will be.
Unhandled(req) == [stage |-> "unhandledRejection", req |-> req]

NoResponses == [c \in Callers |-> NoResponse]

\* The step runs no handler, no cache load and no loader.
NoHandler ==
    /\ returned' = NoReturns
    /\ UNCHANGED <<now, cacheStore, loads, callers, lastKnownOpenClaw,
                   openclawPathPromise>>

\* The handler of connection c writes response and ends.
Reply(c, response) ==
    /\ sent' = [d \in Callers |-> IF d = c THEN response ELSE NoResponse]
    /\ conns' = [conns EXCEPT ![c] = Answered]

\* lines 566-568: getRandomQuote(); the model draws the first and the last.
NUM_QUOTES   == 16
QuoteIndexes == {1, NUM_QUOTES}

\* lines 684 and 688: the payload built around the handler's result.
Payload(route, value) ==
    CASE route = "cron"        -> [jobs |-> value.items]
      [] route = "connections" -> [connections |-> value.items]
      [] OTHER                 -> value

\* lines 53-57: formatError(error)
FormatError(error) ==
    IF "message" \in DOMAIN error THEN error.message ELSE error

\* lines 674-700: the dispatch resumes from `await <handler>()` with outcome:
\* the payload with 200, or the catch block's 500.
HandlerReply(conn, outcome) ==
    IF outcome.kind = "value"
    THEN SendJson(conn.req, conn.allowedOrigin, 200,
                  Payload(conn.route, outcome.value))
    ELSE SendJson(conn.req, conn.allowedOrigin, 500,
                  [error |-> "Internal server error",
                   detail |-> FormatError(outcome.error)])

\* The connections cn after this step's cache work: every handler whose
\* awaited promise was settled (or served from the cache) by the step answers.
Answer(cn) ==
    /\ sent' = [d \in Callers |->
           IF cn[d].stage = "awaitHandler" /\ returned'[d] # NoReturn
           THEN HandlerReply(cn[d], returned'[d].outcome)
           ELSE NoResponse]
    /\ conns' = [d \in Callers |->
           IF cn[d].stage = "awaitHandler" /\ returned'[d] # NoReturn
           THEN Answered
           ELSE cn[d]]

\* Mutant of CanAccept: a request is accepted only when no other is in progress.
CanAccept_OneAtATime(c) ==
    listening /\ \A d \in Callers : conns[d] = Closed

\* line 641: the listener hands a request on connection c to the handler.
CanAccept(c) == listening /\ conns[c] = Closed

\* lines 178-185: proxyGlancesEndpoint(res, endpoint) up to its first await.
ProxyStart(c, req, allowedOrigin, endpoint) ==
    /\ IF ~ IsAllowedEndpoint(endpoint)
       THEN Reply(c, SendJson(req, allowedOrigin, 404,
                              [error |-> "Glances endpoint not found"]))
       ELSE /\ conns' = [conns EXCEPT ![c] =
                   Proxying(req, allowedOrigin, endpoint, "headers", TRUE, Null)]
            /\ sent' = NoResponses
    /\ NoHandler

\* lines 674-697: the dispatch by exact path up to its first await.
Dispatch(c, req, allowedOrigin, url, first) ==
    LET route == RouteOf(url.pathname)
        cn    == [conns EXCEPT ![c] = AwaitingHandler(req, allowedOrigin, route)]
    IN
    CASE route = "openclaw" ->
            GetOpenClawStats(c, first) /\ Answer(cn)
      [] route = "openclaw/history" ->
            Get24HourTokens(c) /\ Answer(cn)
      [] route = "history" ->
            GetHistory(c, IF url.range = "" THEN "1h" ELSE url.range) /\ Answer(cn)
      [] route = "cron" ->
            GetCronJobs(c, first) /\ Answer(cn)
      [] route = "tokens" ->
            GetTokenBreakdown(c, first) /\ Answer(cn)
      [] route = "connections" ->
            GetConnections(c) /\ Answer(cn)
      [] route = "quote" ->
            /\ \E q \in QuoteIndexes :
                  Reply(c, SendJson(req, allowedOrigin, 200, [quote |-> q]))
            /\ NoHandler
      [] route = "processes" ->
            GetProcessInsights(c) /\ Answer(cn)
      [] route = "health" ->
            GetHealthStatus(c) /\ Answer(cn)
      [] OTHER ->
            /\ Reply(c, SendJson(req, allowedOrigin, 404, [error |-> "Not found"]))
            /\ NoHandler

\* Mutant of IsGet: POST is let through to the dispatch.
IsGet_OrPost(method) == method \in {"GET", "POST"}

\* line 657: req.method !== 'GET', negated.
IsGet(method) == method = "GET"

\* lines 641-701: the request handler from the arrival of req on connection c
\* up to its first await or its response.
HttpRequest(c, req, first) ==
    LET allowedOrigin == GetAllowedOrigin(req.origin, req.host)
        url           == ParseUrl(req.url)
    IN
    /\ CanAccept(c)
    /\ IF req.method = "OPTIONS"
       THEN /\ Reply(c, Response(req, allowedOrigin,
                                 IF allowedOrigin # NoOrigin THEN 204 ELSE 403,
                                 "", Null, Null))
            /\ NoHandler
       ELSE IF ~ IsGet(req.method)
       THEN /\ Reply(c, SendJson(req, allowedOrigin, 405,
                                 [error |-> "Method not allowed"]))
            /\ NoHandler
       ELSE IF ~ url.ok
       THEN /\ conns' = [conns EXCEPT ![c] = Unhandled(req)]
            /\ sent' = NoResponses
            /\ NoHandler
       ELSE IF Truthy(GlancesPath(url.pathname))
       THEN ProxyStart(c, req, allowedOrigin, GlancesPath(url.pathname))
       ELSE Dispatch(c, req, allowedOrigin, url, first)
    /\ UNCHANGED listening

\* Bytes the metrics agent may send that are not valid UTF-8.
InvalidBytes == {"0xFF"}

\* line 191: response.text() decodes the body as UTF-8; a byte that is not
\* valid UTF-8 becomes the replacement character.
Utf8Decode(bytes) ==
    [i \in 1..Len(bytes) |-> IF bytes[i] \in InvalidBytes THEN "U+FFFD" ELSE bytes[i]]

RECURSIVE Utf8Encode(_)
\* line 194: res.end(body) encodes the string as UTF-8.
Utf8Encode(text) ==
    IF text = <<>> THEN <<>>
    ELSE (IF Head(text) = "U+FFFD" THEN <<"0xEF", "0xBF", "0xBD">> ELSE <<Head(text)>>)
            \o Utf8Encode(Tail(text))

\* A 2xx response of the metrics agent: its Content-Type header ("" when it
\* sends none) and the bytes of its body.
UpstreamResponse(contentType, body) == [contentType |-> contentType, body |-> body]

UpstreamResponses ==
    {UpstreamResponse("application/json", <<"{", "}">>),
     UpstreamResponse("", <<"{", "}">>),
     UpstreamResponse("text/plain; charset=iso-8859-1", <<"0xFF">>)}

\* lines 185-189 and 195-197: the header phase of the proxied fetch ends.
ProxyHeaders(c, outcome, response) ==
    /\ conns[c].stage = "proxy"
    /\ conns[c].phase = "headers"
    /\ CASE outcome = "ok" ->
              /\ conns' = [conns EXCEPT ![c] =
                     Proxying(conns[c].req, conns[c].allowedOrigin, conns[c].endpoint,
                              "body", FALSE, response)]
              /\ sent' = NoResponses
         [] outcome = "status" ->
              Reply(c, SendJson(conns[c].req, conns[c].allowedOrigin, 502,
                                [error |-> "Glances returned 503"]))
         [] outcome = "failed" ->
              Reply(c, SendJson(conns[c].req, conns[c].allowedOrigin, 502,
                                [error |-> "Failed to reach Glances"]))
    /\ NoHandler
    /\ UNCHANGED listening

\* lines 191-197: response.text() ends.
ProxyBody(c, outcome) ==
    /\ conns[c].stage = "proxy"
    /\ conns[c].phase = "body"
    /\ IF outcome = "read"
       THEN Reply(c, Response(conns[c].req, conns[c].allowedOrigin, 200,
                     IF conns[c].response.contentType = ""
                     THEN JSON_CONTENT_TYPE
                     ELSE conns[c].response.contentType,
                     [bytes |-> Utf8Encode(Utf8Decode(conns[c].response.body))],
                     conns[c].response))
       ELSE Reply(c, SendJson(conns[c].req, conns[c].allowedOrigin, 502,
                              [error |-> "Failed to reach Glances"]))
    /\ NoHandler
    /\ UNCHANGED listening

\* The rejection of a handler's promise is handled nowhere: Node reports it
\* and, by default since version 15, ends the process; everything the process
\* held is gone.
ProcessExits ==
    /\ listening
    /\ \E c \in Callers : conns[c].stage = "unhandledRejection"
    /\ listening' = FALSE
    /\ conns' = [c \in Callers |-> Reset]
    /\ sent' = NoResponses
    /\ callers' = [c \in Callers |-> Idle]
    /\ returned' = NoReturns
    /\ loads' = [i \in LoadIds |-> Settled]
    /\ cacheStore' = [k \in Keys |-> NoEntry]
    /\ lastKnownOpenClaw' = Null
    /\ openclawPathPromise' = Null
    /\ UNCHANGED now

\* The requests the model draws from.
Methods == {"GET", "OPTIONS", "POST"}

\* The targets of the cached resources, at a bare path or at its alias.
HandlerTargets ==
    {Target(<<"api", "openclaw">>, ""), Target(<<"openclaw", "history">>, ""),
     Target(<<"api", "history">>, "24h"), Target(<<"history">>, "bogus"),
     Target(<<"cron">>, ""), Target(<<"api", "tokens">>, ""),
     Target(<<"connections">>, ""), Target(<<"processes">>, ""),
     Target(<<"api", "health">>, "")}

QUOTE_TARGET == Target(<<"api", "quote">>, "")
CPU_TARGET   == Target(<<"api", "glances", "cpu">>, "")

\* "//": a target the URL constructor rejects.
INVALID_TARGET == Target(<<"", "">>, "")

\* Targets that name no resource: unknown paths, glances names outside the
\* allow-list, the empty glances name, a name with a further segment.
UnknownTargets ==
    {Target(<<"api", "glances", "foo">>, ""), Target(<<"api", "glances", "">>, ""),
     Target(<<"glances", "cpu", "raw">>, ""), Target(<<"api", "glances">>, ""),
     Target(<<"">>, "")}

LOCAL_ORIGIN   == <<"http", ":", "//", "localhost", ":", "3000">>
FOREIGN_ORIGIN == <<"https", ":", "//", "evil.example">>
LAN_ORIGIN     == <<"http", ":", "//", "dash.lan", ":", "8080">>
LAN_HOST       == <<"dash.lan", ":", "8889">>
IPV6_ORIGIN    == <<"http", ":", "//", "[", "fe80", ":", ":", "1", "]", ":", "8080">>
IPV6_HOST      == <<"[", "fe80", ":", ":", "1", "]", ":", "8889">>
LOOPBACK6_ORIGIN == <<"http", ":", "//", "[", ":", ":", "1", "]">>

Headers(origin, host) == [origin |-> origin, host |-> host]

\* The Origin and Host headers of the requests of SpecFrontDoor: no origin, a
\* loopback origin (by name, by IPv4 and by IPv6 address), the request's own
\* host (a name, without and with a Host port, and an IPv6 address), a foreign
\* origin, an origin that is no URL, and no Host header.
CorsHeaders ==
    {Headers(<<>>, LAN_HOST),
     Headers(LOCAL_ORIGIN, LAN_HOST),
     Headers(<<"http", ":", "//", "127.0.0.1">>, LAN_HOST),
     Headers(LOOPBACK6_ORIGIN, LAN_HOST),
     Headers(LAN_ORIGIN, LAN_HOST),
     Headers(LAN_ORIGIN, <<"dash.lan">>),
     Headers(IPV6_ORIGIN, IPV6_HOST),
     Headers(FOREIGN_ORIGIN, LAN_HOST),
     Headers(<<"null">>, LAN_HOST),
     Headers(FOREIGN_ORIGIN, <<>>)}

\* The requests of SpecFrontDoor: every method on every target but GET on a
\* cached resource, and every pair of headers on the targets that are
\* answered at once or proxied.
FrontDoorRequests ==
    {Request(m, t, LOCAL_ORIGIN, LAN_HOST) :
        m \in Methods \ {"GET"}, t \in HandlerTargets}
    \cup {Request(m, t, LOCAL_ORIGIN, LAN_HOST) :
        m \in Methods, t \in UnknownTargets \cup {INVALID_TARGET}}
    \cup {Request("GET", Target(<<"glances", "mem">>, ""), FOREIGN_ORIGIN, LAN_HOST),
          Request("GET", Target(<<"", "evil.example", "api", "quote">>, ""),
                  FOREIGN_ORIGIN, LAN_HOST)}
    \cup {Request(m, t, h.origin, h.host) :
        m \in Methods, t \in {QUOTE_TARGET, CPU_TARGET}, h \in CorsHeaders}

\* The front door alone: requests that need no cached resource, with the
\* metrics agent answering, failing or stalling at will.
NextFrontDoor ==
    \/ \E c \in Callers, req \in FrontDoorRequests, first \in OnPathOnly :
          HttpRequest(c, req, first)
    \/ \E c \in Callers, outcome \in HeaderOutcomes, response \in UpstreamResponses :
          ProxyHeaders(c, outcome, response)
    \/ \E c \in Callers, outcome \in BodyOutcomes :
          ProxyBody(c, outcome)
    \/ ProcessExits

SpecFrontDoor == Init /\ [][NextFrontDoor]_vars

\* The requests of SpecHttp: GET on every resource.
HttpRequests ==
    {Request("GET", t, LOCAL_ORIGIN, LAN_HOST) :
        t \in HandlerTargets \cup {QUOTE_TARGET, CPU_TARGET, INVALID_TARGET}}

\* Every step of a loader is followed, in the same run, by the answers of the
\* handlers it resumed.  The clock stands still: the requests of one behaviour
\* arrive within one TTL.
NextHttp ==
    \/ \E c \in Callers, req \in HttpRequests, first \in OnPathOnly :
          HttpRequest(c, req, first)
    \/ \E c \in Callers, outcome \in HeaderOutcomes, response \in UpstreamResponses :
          ProxyHeaders(c, outcome, response)
    \/ \E c \in Callers, outcome \in BodyOutcomes :
          ProxyBody(c, outcome)
    \/ ProcessExits
    \/ ProbeVersionOk /\ Answer(conns) /\ UNCHANGED listening
    \/ \E next \in CandidateIds :
          ProbeVersionFails(next) /\ Answer(conns) /\ UNCHANGED listening
    \/ \E id \in LoadIds :
          StatusJsonGotPath(id) /\ Answer(conns) /\ UNCHANGED listening
    \/ \E id \in LoadIds, status \in CliStatusOutputs :
          CliStatusOk(id, status) /\ Answer(conns) /\ UNCHANGED listening
    \/ \E id \in LoadIds :
          CliStatusFails(id) /\ Answer(conns) /\ UNCHANGED listening
    \/ \E id \in LoadIds, answer \in UsageAnswers :
          UsageQueryDone(id, answer) /\ Answer(conns) /\ UNCHANGED listening
    \/ \E id \in LoadIds :
          StatsGotStatus(id) /\ Answer(conns) /\ UNCHANGED listening
    \/ \E id \in LoadIds :
          StatsGot24h(id) /\ Answer(conns) /\ UNCHANGED listening
    \/ \E id \in LoadIds, rows \in LatestRowSets, first \in OnPathOnly :
          LatestRowQueryDone(id, rows, first) /\ Answer(conns) /\ UNCHANGED listening
    \/ \E id \in LoadIds :
          StatsGot24hFallback(id) /\ Answer(conns) /\ UNCHANGED listening
    \/ \E id \in LoadIds :
          StatsGotPath(id) /\ Answer(conns) /\ UNCHANGED listening
    \/ \E id \in LoadIds, answer \in MetricAnswers :
          HistoryQueryDone(id, answer) /\ Answer(conns) /\ UNCHANGED listening
    \/ \E id \in LoadIds :
          CronGotPath(id) /\ Answer(conns) /\ UNCHANGED listening
    \/ \E id \in LoadIds, out \in CronOutputs :
          CronListDone(id, out) /\ Answer(conns) /\ UNCHANGED listening
    \/ \E id \in LoadIds :
          TokensGotStatus(id) /\ Answer(conns) /\ UNCHANGED listening
    \/ \E id \in LoadIds, out \in LsofOutputs :
          LsofDone(id, out) /\ Answer(conns) /\ UNCHANGED listening
    \/ \E id \in LoadIds, outcome \in HeaderOutcomes, first \in OnPathOnly :
          GlancesHeaders(id, outcome, first) /\ Answer(conns) /\ UNCHANGED listening
    \/ \E id \in LoadIds, outcome \in BodyOutcomes, first \in OnPathOnly :
          GlancesBody(id, outcome, first) /\ Answer(conns) /\ UNCHANGED listening
    \/ \E id \in LoadIds, answer \in AverageAnswers :
          ProcessHistoryDone(id, answer) /\ Answer(conns) /\ UNCHANGED listening
    \/ \E id \in LoadIds, answer \in MetricAnswers :
          HealthDbDone(id, answer) /\ Answer(conns) /\ UNCHANGED listening
    \/ \E id \in LoadIds :
          HealthGotPath(id) /\ Answer(conns) /\ UNCHANGED listening
    \/ \E id \in LoadIds :
          HealthGotStatus(id) /\ Answer(conns) /\ UNCHANGED listening

\* The server: requests arrive on every connection, and the metrics agent, the
\* CLI and the store answer or fail at will.
SpecHttp == Init /\ [][NextHttp]_vars

\* The response on connection c has been written out: the connection, kept
\* alive, can carry the next request.
KeepAlive(c) ==
    /\ conns[c] = Answered
    /\ conns' = [conns EXCEPT ![c] = Closed]
    /\ sent' = NoResponses
    /\ NoHandler
    /\ UNCHANGED listening

\* The requests of SpecKeepAlive: the quote, two cached resources and a
\* proxied path.
KeepAliveRequests ==
    {Request("GET", t, LOCAL_ORIGIN, LAN_HOST) :
        t \in {QUOTE_TARGET, CPU_TARGET, Target(<<"openclaw", "history">>, ""),
               Target(<<"api", "connections">>, "")}}

NextKeepAlive ==
    \/ \E c \in Callers, req \in KeepAliveRequests, first \in OnPathOnly :
          HttpRequest(c, req, first)
    \/ \E c \in Callers : KeepAlive(c)
    \/ \E c \in Callers, outcome \in HeaderOutcomes, response \in UpstreamResponses :
          ProxyHeaders(c, outcome, response)
    \/ \E c \in Callers, outcome \in BodyOutcomes :
          ProxyBody(c, outcome)
    \/ \E id \in LoadIds, answer \in UsageAnswers :
          UsageQueryDone(id, answer) /\ Answer(conns) /\ UNCHANGED listening
    \/ \E id \in LoadIds, out \in LsofOutputs :
          LsofDone(id, out) /\ Answer(conns) /\ UNCHANGED listening

\* Connections that carry one request after another, within one TTL.
SpecKeepAlive == Init /\ [][NextKeepAlive]_vars

\* The callers of getOpenclawPath() on a machine where any of the candidate
\* files may exist: the cron loader and, through getOpenClawStatusJson, the
\* token breakdown, within one TTL.
NextPath ==
    \/ \E c \in Callers, first \in CandidateIds :
          GetCronJobs(c, first) /\ UNCHANGED httpVars
    \/ \E c \in Callers, first \in CandidateIds :
          GetTokenBreakdown(c, first) /\ UNCHANGED httpVars
    \/ ProbeVersionOk /\ UNCHANGED httpVars
    \/ \E next \in CandidateIds : ProbeVersionFails(next) /\ UNCHANGED httpVars
    \/ \E id \in LoadIds : CronGotPath(id) /\ UNCHANGED httpVars
    \/ \E id \in LoadIds, out \in CronOutputs : CronListDone(id, out) /\ UNCHANGED httpVars
    \/ \E id \in LoadIds : StatusJsonGotPath(id) /\ UNCHANGED httpVars
    \/ \E id \in LoadIds, status \in CliStatusOutputs :
          CliStatusOk(id, status) /\ UNCHANGED httpVars
    \/ \E id \in LoadIds : CliStatusFails(id) /\ UNCHANGED httpVars
    \/ \E id \in LoadIds : TokensGotStatus(id) /\ UNCHANGED httpVars

SpecPath == Init /\ [][NextPath]_vars

\* The callers of getHealthStatus(), with the store, the metrics agent and the
\* CLI answering or failing at will, and the clock running.
NextHealth ==
    \/ Tick /\ UNCHANGED httpVars
    \/ \E c \in Callers : GetHealthStatus(c) /\ UNCHANGED httpVars
    \/ \E id \in LoadIds, answer \in MetricAnswers :
          HealthDbDone(id, answer) /\ UNCHANGED httpVars
    \/ \E id \in LoadIds, outcome \in HeaderOutcomes, first \in OnPathOnly :
          GlancesHeaders(id, outcome, first) /\ UNCHANGED httpVars
    \/ \E id \in LoadIds, outcome \in BodyOutcomes, first \in OnPathOnly :
          GlancesBody(id, outcome, first) /\ UNCHANGED httpVars
    \/ ProbeVersionOk /\ UNCHANGED httpVars
    \/ \E next \in CandidateIds : ProbeVersionFails(next) /\ UNCHANGED httpVars
    \/ \E id \in LoadIds : HealthGotPath(id) /\ UNCHANGED httpVars
    \/ \E id \in LoadIds : StatusJsonGotPath(id) /\ UNCHANGED httpVars
    \/ \E id \in LoadIds, status \in CliStatusOutputs :
          CliStatusOk(id, status) /\ UNCHANGED httpVars
    \/ \E id \in LoadIds : CliStatusFails(id) /\ UNCHANGED httpVars
    \/ \E id \in LoadIds : HealthGotStatus(id) /\ UNCHANGED httpVars

SpecHealth == Init /\ [][NextHealth]_vars

\* Every sequence of at most MaxRows usage rows, ordered by timestamp, with
\* token counters up to MaxTokens.
UsageRowSeqs ==
    UNION {{[i \in 1..n |-> Row(i, tokens[i])] : tokens \in [1..n -> 0..MaxTokens]} :
              n \in 0..MaxRows}

\* The callers of get24HourTokens(), with the store answering any of these
\* sequences or failing.
NextUsage ==
    \/ Tick /\ UNCHANGED httpVars
    \/ \E c \in Callers : Get24HourTokens(c) /\ UNCHANGED httpVars
    \/ \E id \in LoadIds, answer \in {DbRows(rows) : rows \in UsageRowSeqs} \cup DbFailures :
          UsageQueryDone(id, answer) /\ UNCHANGED httpVars

SpecUsage == Init /\ [][NextUsage]_vars

\* The values of the `range` query parameter the model draws from: none, the
\* five ranges, an unknown name and the name of an inherited object property.
RangeInputs == Ranges \cup {"", "bogus", "constructor"}

HistoryRequests ==
    {Request("GET", Target(path, range), LOCAL_ORIGIN, LAN_HOST) :
        path \in {<<"history">>, <<"api", "history">>}, range \in RangeInputs}

\* GET requests for the history, at the bare path and at its alias, with the
\* store answering or failing and the clock running.
NextHistory ==
    \/ Tick /\ Answer(conns) /\ UNCHANGED listening
    \/ \E c \in Callers, req \in HistoryRequests, first \in OnPathOnly :
          HttpRequest(c, req, first)
    \/ \E id \in LoadIds, answer \in MetricAnswers :
          HistoryQueryDone(id, answer) /\ Answer(conns) /\ UNCHANGED listening

SpecHistory == Init /\ [][NextHistory]_vars

\* The processes the model draws the short lists of the metrics agent from.
SampleProcesses ==
    {Process("node", Percent(10), MiB(200)),
     Process("node", Percent(8), MiB(90)),
     Process("", 0, 0),
     Process("unknown", Percent(2), MiB(10)),
     Process("constructor", Percent(10), MiB(100)),
     Process("sqlite3", 1234, MiB(75) + 600000)}

MaxProcs == 2

\* A list of the given names in decreasing order of CPU.
Descending(names) ==
    [i \in 1..Len(names) |-> Process(names[i], Percent(40 - i), MiB(10))]

\* The longer lists: eleven names; ten names and a tail beyond the cut; a
\* name that fills four places of the cut, with a new name beyond it; and the
\* eleven names from the lowest CPU to the highest.
LongLists ==
    {Descending(<<"a", "b", "c", "d", "e", "f", "g", "h", "i", "j", "k">>),
     Descending(<<"a", "a", "a", "a", "b", "c", "d", "e", "f", "g", "zed">>),
     [i \in 1..11 |->
         Process(<<"a", "b", "c", "d", "e", "f", "g", "h", "i", "j", "k">>[i],
                 Percent(i), MiB(10))]}

\* The bodies the metrics agent answers the processlist with: a list, or
\* something that is no list.
ProcessBodies ==
    {Array(procs) : procs \in LongLists \cup
                       UNION {[1..n -> SampleProcesses] : n \in 0..MaxProcs}}
       \cup {Null, [total |-> 3]}

\* What process_metrics holds of the last 24 hours, name by name.
NodeGroups ==
    {Group("node", cpu, ram, samples) :
        cpu \in {Percent(1), Percent(4), Percent(5), Percent(6)},
        ram \in {MiB(50), MiB(60), MiB(140) + 500000},
        samples \in {MIN_SAMPLES, MIN_SAMPLES + 1}}

StoreGroups ==
    {<<>>, <<Group("a", Percent(2), MiB(5), 9)>>,
     <<Group("zed", Percent(2), MiB(5), 9)>>,
     <<Group("constructor", Percent(2), MiB(5), 2)>>,
     <<Group("a", Percent(2), MiB(5), 9), Group("j", Percent(2), MiB(5), 9)>>}
       \cup {<<g>> : g \in NodeGroups}
       \cup {<<Group("sqlite3", 617, MiB(20), 7), g>> : g \in NodeGroups}

\* What the sqlite3 subprocess answers the averages query with when the store
\* holds groups: the qualifying rows.
AveragesOf(groups) == DbRows(AveragesQuery(groups))

\* A failure of the sqlite3 subprocess that leaves the store as it is.
DB_LOCKED == DbError(<<"Command failed: sqlite3 -json", "Error: database is locked">>)

\* The callers of getProcessInsights(), with the metrics agent answering any of
\* these bodies or failing, and the store answering from any of these groups
\* or failing.
NextProcesses ==
    \/ \E c \in Callers : GetProcessInsights(c) /\ UNCHANGED httpVars
    \/ \E id \in LoadIds, outcome \in HeaderOutcomes, first \in OnPathOnly :
          GlancesHeaders(id, outcome, first) /\ UNCHANGED httpVars
    \/ \E id \in LoadIds, first \in OnPathOnly,
          result \in {Ok(body) : body \in ProcessBodies} \cup {Thrown("terminated")} :
          GlancesJson(id, result, first) /\ UNCHANGED httpVars
    \/ \E id \in LoadIds,
          answer \in {AveragesOf(groups) : groups \in StoreGroups}
                        \cup DbFailures \cup {DB_LOCKED} :
          ProcessHistoryDone(id, answer) /\ UNCHANGED httpVars

SpecProcesses == Init /\ [][NextProcesses]_vars

\* The model names the sessions of the status carry.
ModelNames ==
    {W_CLAUDE \o DASH \o OPUS_4_5,
     <<"C">> \o Tail(W_CLAUDE) \o DASH \o <<"O">> \o Tail(W_OPUS) \o DASH \o W_4_5,
     W_CLAUDE \o DASH \o W_OPUS \o DASH \o <<"4">>,
     W_CLAUDE \o DASH \o SONNET_4,
     W_CLAUDE \o DASH \o W_SONNET \o DASH \o W_4_5,
     W_CLAUDE \o DASH \o S3_5_SONNET,
     W_CLAUDE \o DASH \o S3DOT5_SONNET,
     W_CLAUDE \o DASH \o S3_5_SONNET \o DASH \o W_4_5,
     <<"g", "p", "t">>,
     <<>>}

MaxSessions == 12

\* The totalTokens of the recent sessions of the status: none, small totals, a
\* thousand in two sessions, and more sessions than are counted.
TokenLists ==
    {<<>>, <<1>>, <<2>>, <<1, 2>>, <<400, 600>>, [j \in 1..MaxSessions |-> 100]}

\* A status whose sessions all ran on model, with the default model dflt.
TokenStatus(tokens, model, dflt) ==
    [sessions |-> [count |-> Len(tokens),
                   defaults |-> [model |-> dflt],
                   recent |-> [j \in 1..Len(tokens) |->
                                  [totalTokens |-> tokens[j], model |-> model]]]]

TokenStatuses ==
    {TokenStatus(tokens, model, <<>>) : tokens \in TokenLists, model \in ModelNames}
       \cup {TokenStatus(tokens, <<>>, W_CLAUDE \o DASH \o SONNET_4) :
                 tokens \in TokenLists}

\* The JSON values of the cron command.
CronData ==
    {[none |-> TRUE], [jobs |-> <<[id |-> 1, name |-> Null, enabled |-> TRUE]>>]}

\* What precedes the JSON in the output of a CLI command: nothing, a line
\* break, a warning.
Prefixes == {<<>>, <<Blank>>, <<Text("Config warning: unknown key", FALSE), Blank>>}

\* How runCommand ends for a command that prints the JSON values of data: the
\* value behind a prefix, text that is no JSON, or a failure.
CommandOutcomes(data) ==
    {Ok(prefix \o <<JsonText(value)>>) : prefix \in Prefixes, value \in data}
       \cup {Ok(<<Text("not json", FALSE)>>), Ok(<<Text("{ not json", TRUE)>>),
              Ok(<<>>), Thrown("Command failed"), Thrown("timed out")}

CliRequests ==
    {Request("GET", Target(path, ""), LOCAL_ORIGIN, LAN_HOST) :
        path \in {<<"cron">>, <<"api", "cron">>, <<"tokens">>, <<"api", "tokens">>}}

\* GET requests for the cron jobs and the token breakdown, with the CLI found
\* or not, and its commands printing, failing or timing out.
NextCli ==
    \/ \E c \in Callers, req \in CliRequests, first \in OnPathOnly :
          HttpRequest(c, req, first)
    \/ ProbeVersionOk /\ Answer(conns) /\ UNCHANGED listening
    \/ \E next \in CandidateIds :
          ProbeVersionFails(next) /\ Answer(conns) /\ UNCHANGED listening
    \/ \E id \in LoadIds :
          StatusJsonGotPath(id) /\ Answer(conns) /\ UNCHANGED listening
    \/ \E id \in LoadIds, out \in CommandOutcomes(TokenStatuses) :
          CliStatusDone(id, out) /\ Answer(conns) /\ UNCHANGED listening
    \/ \E id \in LoadIds :
          CronGotPath(id) /\ Answer(conns) /\ UNCHANGED listening
    \/ \E id \in LoadIds, out \in CommandOutcomes(CronData) :
          CronCommandDone(id, out) /\ Answer(conns) /\ UNCHANGED listening
    \/ \E id \in LoadIds :
          TokensGotStatus(id) /\ Answer(conns) /\ UNCHANGED listening

SpecCli == Init /\ [][NextCli]_vars

\* The lines the model draws the short outputs of lsof from: two connections
\* of one process to one host, a listening socket, connections to localhost,
\* to the local resolver, to the IPv6 loopback and to an IPv6 address, and a
\* connection that is closing.
SampleLines ==
    {LsofLine("node", <<<<"203.0.113.7">>, <<"443">>>>, TRUE),
     LsofLine("node", <<<<"203.0.113.7">>, <<"8443">>>>, TRUE),
     LsofLine("node", <<>>, FALSE),
     LsofLine("postgres", <<<<"localhost">>, <<"5432">>>>, TRUE),
     LsofLine("resolver", <<<<"127.0.0.53">>, <<"53">>>>, TRUE),
     LsofLine("chrome", <<<<"[">>, <<>>, <<"1]">>, <<"5432">>>>, TRUE),
     LsofLine("chrome", <<<<"[2001">>, <<"4860">>, <<>>, <<"1]">>, <<"443">>>>, TRUE),
     LsofLine("curl", <<<<"example.com">>, <<"80">>>>, FALSE)}

MaxLines == 2

ManyLines == 25

\* The longer outputs: one process connected to many hosts, and to two hosts
\* in turn.
LongOutputs ==
    {[i \in 1..ManyLines |->
         LsofLine("node", <<<<"10.0.0.", ToString(i)>>, <<"443">>>>, TRUE)],
     [i \in 1..ManyLines |->
         LsofLine("node", <<<<"10.0.0.", ToString(i % 2)>>, <<"443">>>>, TRUE)]}

\* How runCommand of lsof ends.
LsofOutcomes ==
    {Ok(lines) : lines \in LongOutputs \cup
                    UNION {[1..n -> SampleLines] : n \in 0..MaxLines}}
       \cup {Thrown("lsof failed"), Thrown("timed out")}

ConnectionRequests ==
    {Request("GET", Target(path, ""), LOCAL_ORIGIN, LAN_HOST) :
        path \in {<<"connections">>, <<"api", "connections">>}}

\* GET requests for the connections, with lsof printing any of these outputs
\* or failing, and the clock running.
NextConnections ==
    \/ Tick /\ Answer(conns) /\ UNCHANGED listening
    \/ \E c \in Callers, req \in ConnectionRequests, first \in OnPathOnly :
          HttpRequest(c, req, first)
    \/ \E id \in LoadIds, out \in LsofOutcomes :
          LsofCommandDone(id, out) /\ Answer(conns) /\ UNCHANGED listening

SpecConnections == Init /\ [][NextConnections]_vars


(***************************************************************************)
(* Properties of withCache, checked under Spec.                            *)
(***************************************************************************)
PendingLoads(key) == {id \in LoadIds : IsPending(id) /\ loads[id].key = key}

\* Caller c entered withCache in this step.
CalledNow(c) ==
    /\ callers[c] = Idle
    /\ callers'[c] # Idle \/ returned'[c] # NoReturn

\* The key of the call CalledNow(c) is about.
CalledKey(c) == IF callers'[c] # Idle THEN callers'[c].key ELSE returned'[c].key

\* The promises created in this step.
StartedNow == {id \in 1..Len(loads') : id > Len(loads)}

\* The claim's own reading of "holds a value that is still fresh".
HoldsFreshValue(key) ==
    /\ cacheStore[key].value # Undefined
    /\ now - cacheStore[key].timestamp < TtlOf(key)

\* C1: a call made while a load for the key is in flight (and no fresh value
\* exists) invokes no loader and receives the outcome of that load: all the
\* callers suspended on a key wait for one and the same pending load of that
\* key, the only one the key has, and a caller that joined a load is returned
\* the very outcome (the same value or the same error) returned to the caller
\* that started it.
C1_Coalesced ==
    /\ \A c \in Callers : callers[c] # Idle =>
          /\ callers[c].load \in LoadIds
          /\ IsPending(callers[c].load)
          /\ loads[callers[c].load].key = callers[c].key
          /\ PendingLoads(callers[c].key) = {callers[c].load}
    /\ \A c \in Callers :
          (returned[c] # NoReturn /\ returned[c].how = "joined") =>
             \E d \in Callers :
                /\ returned[d] # NoReturn
                /\ returned[d].how = "started"
                /\ returned[d].load = returned[c].load
                /\ returned[d].key = returned[c].key
                /\ returned[d].outcome = returned[c].outcome

\* Witness of C1: a caller that joined an in-flight load has just received the
\* error of that load.
C1_Witness ==
    \E c \in Callers :
       /\ returned[c] # NoReturn
       /\ returned[c].how = "joined"
       /\ returned[c].outcome = Rejected(ErrorOf(returned[c].load))

\* C2: at most one load per key is executing in every reachable state.
C2_OneLoadPerKey ==
    \A key \in Keys : Cardinality(PendingLoads(key)) <= 1

\* Witness of C2: a second load of a key is in flight after the first settled,
\* with another caller coalesced onto it.
C2_Witness ==
    \E c, d \in Callers :
       /\ callers[c] # Idle /\ callers[d] # Idle
       /\ callers[c].how = "started" /\ callers[d].how = "joined"
       /\ callers[c].load = callers[d].load
       /\ callers[c].load > 1
       /\ loads[callers[c].load].existing.present

\* C3: a call on an entry holding a value younger than ttl returns that value,
\* invokes no loader and leaves the entry alone; a call on an entry aged ttl or
\* more (or without a value) with no load in flight invokes the loader exactly
\* once.
C3_FreshOrLoad ==
    [][\A c \in Callers : CalledNow(c) =>
          LET key == CalledKey(c) IN
          IF HoldsFreshValue(key)
          THEN /\ returned'[c] # NoReturn
               /\ returned'[c].outcome = Fulfilled(cacheStore[key].value, "cache")
               /\ callers'[c] = Idle
               /\ loads' = loads
               /\ cacheStore' = cacheStore
          ELSE PendingLoads(key) = {} =>
               /\ Cardinality(StartedNow) = 1
               /\ \A id \in StartedNow : loads'[id].key = key
               /\ callers'[c] # Idle /\ callers'[c].load \in StartedNow
               /\ returned'[c] = NoReturn
      ]_vars

\* Witness of C3: a load was started for an entry whose value is aged exactly
\* ttl, while a call on another key has just been served its fresh value.
C3_Witness ==
    \E c, d \in Callers :
       /\ callers[c] # Idle /\ callers[c].how = "started"
       /\ loads[callers[c].load].existing.value # Undefined
       /\ now - loads[callers[c].load].existing.timestamp = TtlOf(callers[c].key)
       /\ returned[d] # NoReturn /\ returned[d].how = "fresh"

\* A caller was just handed a loader failure.
ThrownTo(c) == returned[c] # NoReturn /\ returned[c].outcome.kind = "error"

\* C4: when the loader fails and stale serving does not apply, every caller of
\* the load (the one that started it and those coalesced onto it) receives the
\* failure, and the entry keeps the value and the timestamp it had before the
\* call started.
C4_FailurePropagates ==
    [][\A id \in LoadIds :
          (/\ IsPending(id)
           /\ loads'[id] = Settled
           /\ ~ \E c \in Callers :
                   /\ callers[c].load = id
                   /\ returned'[c] # NoReturn
                   /\ returned'[c].outcome.by = "loader"
           /\ \/ ~ loads[id].allowStaleOnError
              \/ loads[id].existing.value = Undefined) =>
             /\ \A c \in Callers : callers[c].load = id =>
                   /\ returned'[c] # NoReturn
                   /\ returned'[c].outcome = Rejected(ErrorOf(id))
             /\ cacheStore'[loads[id].key].value = loads[id].existing.value
             /\ cacheStore'[loads[id].key].timestamp = loads[id].existing.timestamp
             /\ cacheStore'[loads[id].key].value = cacheStore[loads[id].key].value
             /\ cacheStore'[loads[id].key].timestamp
                   = cacheStore[loads[id].key].timestamp
      ]_vars

\* Witness of C4: two callers of one load have both received its failure while
\* the entry still holds the previous value (allowStaleOnError was not set).
C4_Witness ==
    \E c, d \in Callers :
       /\ c # d
       /\ ThrownTo(c) /\ ThrownTo(d)
       /\ returned[c].load = returned[d].load
       /\ returned[c].existing.value # Undefined
       /\ cacheStore[returned[c].key].value = returned[c].existing.value
       /\ cacheStore[returned[c].key].timestamp = returned[c].existing.timestamp

\* A caller was just re-served the previous value after a loader failure.
StaleServedTo(c) == returned[c] # NoReturn /\ returned[c].outcome.by = "stale"

\* C5 as claimed: after a stale re-serve the previous value's freshness window
\* is extended, so at the instant of the failed attempt the entry is fresh and
\* a further call would be served from it without invoking the loader.
C5_Claimed ==
    \A c \in Callers : StaleServedTo(c) =>
       IsFresh(cacheStore[returned[c].key], TtlOf(returned[c].key), now)

\* C5 as amended: a loader failure with allowStaleOnError set and a previous
\* value present returns the previous value without raising an error and
\* leaves the entry as it was before the call: same value, same timestamp, no
\* in-flight handle.  The entry is therefore still expired and the next call
\* for the key invokes the loader again.
C5_StaleServed ==
    \A c \in Callers : StaleServedTo(c) =>
       LET key == returned[c].key IN
       /\ returned[c].outcome.kind = "value"
       /\ returned[c].outcome.value = returned[c].existing.value
       /\ returned[c].outcome.value # Undefined
       /\ cacheStore[key].value = returned[c].existing.value
       /\ cacheStore[key].timestamp = returned[c].existing.timestamp
       /\ ~ HasInFlight(cacheStore[key])
       /\ ~ IsFresh(cacheStore[key], TtlOf(key), now)

\* Witness of C5: a caller has just been re-served the previous value.
C5_Witness ==
    \E c \in Callers :
       /\ StaleServedTo(c)
       /\ returned[c].outcome.value = cacheStore[returned[c].key].value

\* The loader of a load of key has just resolved.
LoadedNow(key) ==
    \E c \in Callers :
       /\ returned'[c] # NoReturn
       /\ returned'[c].key = key
       /\ returned'[c].outcome.by = "loader"

\* C6: an entry's timestamp is 0 until a load of its key succeeds, and from
\* then on the completion time of the latest successful load: only a step in
\* which the key's loader resolves changes it, to the time of that step; the
\* start of a load, a failed load and a stale re-serve leave it alone.
C6_TimestampOfLastSuccess ==
    /\ \A key \in Keys : cacheStore[key].timestamp = 0
    /\ [][\A key \in Keys :
             IF LoadedNow(key)
             THEN cacheStore'[key].timestamp = now
             ELSE cacheStore'[key].timestamp = cacheStore[key].timestamp
         ]_vars

\* Witness of C6: a refresh has just failed, later than the success the
\* entry's timestamp dates from.
C6_Witness ==
    \E c \in Callers :
       /\ ThrownTo(c)
       /\ cacheStore[returned[c].key].timestamp # 0
       /\ cacheStore[returned[c].key].timestamp < now

\* The keys a step operates on: the key of a load it starts or settles.
TouchedNow ==
    {loads'[id].key : id \in StartedNow}
       \cup {loads[id].key : id \in {i \in LoadIds : IsPending(i) /\ loads'[i] = Settled}}

\* C7: a step that starts, resolves or fails a load of key k changes the entry
\* of no other key, and resumes no caller suspended on another key.
C7_KeysIsolated ==
    [][/\ \A key \in Keys : cacheStore'[key] # cacheStore[key] => key \in TouchedNow
       /\ \A c \in Callers :
             (callers[c] # Idle /\ callers[c].key \notin TouchedNow) =>
                callers'[c] = callers[c] /\ returned'[c] = NoReturn
      ]_vars

\* Witness of C7: a load of one key has just failed while the entry of another
\* key holds a value.
C7_Witness ==
    \E c \in Callers : \E key \in Keys :
       /\ ThrownTo(c)
       /\ key # returned[c].key
       /\ cacheStore[key].value # Undefined

\* C8: a failed load does not poison its key.  No entry keeps the handle of a
\* settled load, and after a failure the entry is expired, so the next call
\* starts a new load; one call invokes the loader at most once; when a load
\* succeeds its value is stored in the entry and returned.
C8_NoPoison ==
    /\ [](\A key \in Keys :
             HasInFlight(cacheStore[key]) =>
                /\ cacheStore[key].inFlight \in LoadIds
                /\ IsPending(cacheStore[key].inFlight))
    /\ [](\A c \in Callers :
             (ThrownTo(c) \/ StaleServedTo(c)) =>
                /\ ~ HasInFlight(cacheStore[returned[c].key])
                /\ ~ HoldsFreshValue(returned[c].key))
    /\ [][/\ Cardinality(StartedNow) <= 1
          /\ \A c \in Callers :
                (returned'[c] # NoReturn /\ returned'[c].outcome.by = "loader") =>
                   /\ cacheStore'[returned'[c].key].value = returned'[c].outcome.value
                   /\ returned'[c].outcome.kind = "value"
         ]_vars

\* Witness of C8: a load started after a failed load of the same key (the entry
\* exists but holds no value) has just succeeded and its value is in the entry.
C8_Witness ==
    \E c \in Callers :
       /\ returned[c] # NoReturn
       /\ returned[c].outcome.by = "loader"
       /\ returned[c].how = "started"
       /\ returned[c].existing.present
       /\ returned[c].existing.value = Undefined
       /\ cacheStore[returned[c].key].value = returned[c].outcome.value

\* C9 as claimed (stale-while-revalidate): a call on an expired entry that
\* still holds a value is answered without waiting for the refresh, so no
\* caller is ever suspended on a load that replaces a previous value.
C9_Claimed ==
    \A c \in Callers : callers[c] # Idle =>
       loads[callers[c].load].existing.value = Undefined

\* C9 as amended: a call on an expired entry that still holds a value is not
\* answered with that value; it is suspended on the refresh load (the one in
\* flight, or a new one) and answered when that load settles, with the
\* refreshed value when the loader succeeds; the refresh updates the entry for
\* later calls.
C9_WaitsForRefresh ==
    [][\A c \in Callers :
          /\ (/\ CalledNow(c)
              /\ cacheStore[CalledKey(c)].value # Undefined
              /\ now - cacheStore[CalledKey(c)].timestamp >= TtlOf(CalledKey(c))) =>
                /\ returned'[c] = NoReturn
                /\ callers'[c] # Idle
                /\ callers'[c].load \in 1..Len(loads')
                /\ loads'[callers'[c].load] # Settled
                /\ loads'[callers'[c].load].key = CalledKey(c)
          /\ (/\ returned'[c] # NoReturn
              /\ returned'[c].outcome.by = "loader") =>
                /\ cacheStore'[returned'[c].key].value = returned'[c].outcome.value
                /\ cacheStore'[returned'[c].key].timestamp = now
      ]_vars

\* Witness of C9: a caller that called on an expired entry holding a value has
\* just been answered with the value of the refresh, now in the entry.
C9_Witness ==
    \E c \in Callers :
       /\ returned[c] # NoReturn
       /\ returned[c].outcome.by = "loader"
       /\ returned[c].existing.value # Undefined
       /\ returned[c].outcome.value # returned[c].existing.value
       /\ cacheStore[returned[c].key].value = returned[c].outcome.value

(***************************************************************************)
(* Properties of the status handler, checked under SpecStatus.             *)
(***************************************************************************)

\* The stats loader id settles in this step.
StatsSettlesNow(id) ==
    /\ loads[id] # Settled
    /\ loads[id].key = KEY_STATS
    /\ loads'[id] = Settled

\* The stats loader id is in its catch block, or enters it in this step: the
\* status call of this refresh failed.
StatusCallFailed(id) ==
    \/ loads[id].run.pc \in {"awaitLatestRow", "await24hFallback", "awaitPathFallback"}
    \/ /\ loads[id].run.pc = "awaitStatus"
       /\ loads[id].run.inbox # Nothing
       /\ loads[id].run.inbox.kind = "error"

\* C10: the fallback order of a status refresh.  When the status call fails
\* the refresh yields (1) the last successful snapshot with status 'down',
\* cached true and the snapshot's own lastUpdated, if there is a snapshot;
\* else (2) a payload built from the latest openclaw_stats row, 'down' and
\* cached, if the store returned a row; else (3) installed = whether the CLI
\* path was resolved and status 'unknown'; none of them touches the snapshot.
\* When the status call succeeds the refresh yields status 'running' and the
\* payload becomes the snapshot.
C10_FallbackOrder ==
    [][\A id \in LoadIds : StatsSettlesNow(id) =>
          \A c \in Callers : callers[c].load = id =>
             LET out == returned'[c].outcome IN
             /\ returned'[c] # NoReturn
             /\ out.kind = "value"
             /\ cacheStore'[KEY_STATS].value = out.value
             /\ IF StatusCallFailed(id)
                THEN /\ lastKnownOpenClaw' = lastKnownOpenClaw
                     /\ IF lastKnownOpenClaw # Null
                        THEN /\ out.value.status = "down"
                             /\ out.value.cached = TRUE
                             /\ out.value.lastUpdated = lastKnownOpenClaw.lastUpdated
                             /\ out.value.installed = lastKnownOpenClaw.installed
                             /\ out.value.tokens = lastKnownOpenClaw.tokens
                             /\ out.value.sessions = lastKnownOpenClaw.sessions
                             /\ out.value.tokens24h = lastKnownOpenClaw.tokens24h
                        ELSE IF loads[id].run.pc = "await24hFallback"
                        THEN /\ out.value.status = "down"
                             /\ out.value.cached = TRUE
                             /\ out.value.installed = TRUE
                             /\ out.value.tokens = loads[id].run.mem.last.tokens
                             /\ out.value.sessions = loads[id].run.mem.last.sessions
                             /\ out.value.lastUpdated
                                   = loads[id].run.mem.last.timestamp * 1000
                        ELSE /\ out.value.status = "unknown"
                             /\ out.value.installed
                                   = (openclawPathPromise.path # Null)
                ELSE /\ out.value.status = "running"
                     /\ out.value.installed = TRUE
                     /\ out.value.lastUpdated = now
                     /\ lastKnownOpenClaw' = out.value
      ]_vars

\* A caller was just answered a status payload.
StatsReturnedTo(c) ==
    /\ returned[c] # NoReturn
    /\ returned[c].key = KEY_STATS
    /\ returned[c].how # "fresh"
    /\ returned[c].outcome.kind = "value"

\* Witness of C10: after a refresh that succeeded, a later refresh whose
\* status call failed has just answered the snapshot of the earlier one,
\* marked down and cached.
C10_Witness ==
    \E c \in Callers :
       /\ StatsReturnedTo(c)
       /\ returned[c].outcome.value.status = "down"
       /\ lastKnownOpenClaw # Null
       /\ returned[c].outcome.value.lastUpdated = lastKnownOpenClaw.lastUpdated
       /\ returned[c].outcome.value.lastUpdated < now
       /\ returned[c].existing.value.status = "running"

\* The other cases of C10 are reached too: the payload built from the store,
C10_ReachedRow ==
    \E c \in Callers :
       /\ StatsReturnedTo(c)
       /\ returned[c].outcome.value.status = "down"
       /\ lastKnownOpenClaw = Null

\* 'unknown' with the CLI resolved, 'unknown' with no CLI,
C10_ReachedUnknownInstalled ==
    \E c \in Callers :
       /\ StatsReturnedTo(c)
       /\ returned[c].outcome.value.status = "unknown"
       /\ returned[c].outcome.value.installed

C10_ReachedUnknownMissing ==
    \E c \in Callers :
       /\ StatsReturnedTo(c)
       /\ returned[c].outcome.value.status = "unknown"
       /\ ~ returned[c].outcome.value.installed

\* and a running payload that replaces an older snapshot.
C10_ReachedRunningAgain ==
    \E c \in Callers :
       /\ StatsReturnedTo(c)
       /\ returned[c].outcome.value.status = "running"
       /\ returned[c].existing.value # Undefined
       /\ lastKnownOpenClaw = returned[c].outcome.value

(***************************************************************************)
(* Properties of getOpenclawPath, checked under SpecPath.                  *)
(***************************************************************************)

\* How far the probe has come: 0 before the first call, the index of the
\* candidate on trial, one past the last candidate once it has ended.
ProbeRank(promise) ==
    IF promise = Null THEN 0
    ELSE IF promise.state = "pending" THEN promise.trying
    ELSE Len(Candidates) + 1

\* The candidates the probe has passed: each either does not exist or failed
\* its version invocation; the bare name, the last one, is never skipped.
PassedBefore(promise, i) ==
    /\ \A j \in 1..(i - 1) : j \in promise.skipped \cup promise.failed
    /\ promise.skipped \cap promise.failed = {}
    /\ Len(Candidates) \notin promise.skipped

\* C15: the CLI path is probed at most once, whatever the number of callers
\* and also when they overlap with the probe: the one probe walks the
\* candidates in their fixed order and never starts again, its result is the
\* first candidate that exists (or is the bare name) and whose version
\* invocation succeeds, or null when none does, and every loader that goes on
\* with a path got it from that one probe.
C15_ProbedOnce ==
    /\ [](openclawPathPromise # Null =>
            LET p == openclawPathPromise IN
            IF p.state = "pending"
            THEN PassedBefore(p, p.trying) /\ p.trying \notin p.skipped \cup p.failed
            ELSE IF p.path # Null
            THEN \E i \in CandidateIds :
                    /\ p.path = PathOf(Candidates[i])
                    /\ i \notin p.skipped \cup p.failed
                    /\ PassedBefore(p, i)
            ELSE /\ PassedBefore(p, Len(Candidates) + 1)
                 /\ Len(Candidates) \in p.failed)
    /\ [](\A id \in LoadIds :
            (AtPc(id, KEY_CRON, "awaitCli") \/ AtPc(id, KEY_STATUS_JSON, "awaitCli"))
                => PathResolved /\ openclawPathPromise.path # Null)
    /\ [][/\ ProbeRank(openclawPathPromise') >= ProbeRank(openclawPathPromise)
          /\ openclawPathPromise # Null =>
                /\ openclawPathPromise' # Null
                /\ openclawPathPromise.skipped \subseteq openclawPathPromise'.skipped
                /\ openclawPathPromise.failed \subseteq openclawPathPromise'.failed
          /\ PathResolved => openclawPathPromise' = openclawPathPromise]_vars

\* The probe skipped a candidate that does not exist, saw the version
\* invocation of another fail and resolved to a later one, and both the cron
\* loader and the status loader, which asked while it ran or after it ended,
\* go on with that path.
C15_Witness ==
    /\ PathResolved
    /\ openclawPathPromise.path # Null
    /\ openclawPathPromise.skipped # {}
    /\ openclawPathPromise.failed # {}
    /\ \E id \in LoadIds : AtPc(id, KEY_CRON, "awaitCli")
    /\ \E id \in LoadIds : AtPc(id, KEY_STATUS_JSON, "awaitCli")

\* No candidate works: the probe resolved to null.
C15_ReachedNotInstalled ==
    /\ PathResolved
    /\ openclawPathPromise.path = Null


(***************************************************************************)
(* Properties of get24HourTokens, checked under SpecUsage.                 *)
(***************************************************************************)

\* The 24-hour payloads in sight: the cached one and those handed to callers.
UsagePayloads ==
    (IF cacheStore[KEY_24H_TOKENS].value # Undefined
     THEN {cacheStore[KEY_24H_TOKENS].value} ELSE {})
    \cup {returned[c].outcome.value :
            c \in {d \in Callers : /\ returned[d] # NoReturn
                                   /\ returned[d].key = KEY_24H_TOKENS
                                   /\ returned[d].outcome.kind = "value"}}

\* C20: whatever rows the store returns, tokens24h is the tokens of the last
\* row minus the tokens of the first, or 0 when that is negative, and samples
\* is the number of rows; no rows, or a failed query, give tokens24h 0 and
\* samples 0, and the call never fails.
C20_DeltaFloored ==
    /\ \A c \in Callers :
          (returned[c] # NoReturn /\ returned[c].key = KEY_24H_TOKENS) =>
              returned[c].outcome.kind = "value"
    /\ \A u \in UsagePayloads :
          /\ u.tokens24h >= 0
          /\ IF "history" \in DOMAIN u
             THEN LET first == u.history[1].tokens
                      last  == u.history[Len(u.history)].tokens
                  IN
                  /\ u.samples = Len(u.history)
                  /\ u.samples > 0
                  /\ u.tokens24h = IF last >= first THEN last - first ELSE 0
             ELSE u.tokens24h = 0 /\ u.samples = 0

\* The counter was reset between the first and the last sample: tokens24h is 0.
C20_Witness ==
    \E u \in UsagePayloads :
        /\ "history" \in DOMAIN u
        /\ u.samples = MaxRows
        /\ u.history[Len(u.history)].tokens < u.history[1].tokens
        /\ u.tokens24h = 0

\* The counter dropped between two samples and ended above its first value.
C20_ReachedDip ==
    \E u \in UsagePayloads :
        /\ "history" \in DOMAIN u
        /\ \E i \in 1..(Len(u.history) - 1) :
              u.history[i + 1].tokens < u.history[i].tokens
        /\ u.tokens24h > 0

\* No rows, or a failed query.
C20_ReachedEmpty ==
    \E u \in UsagePayloads : u.samples = 0 /\ u.tokens24h = 0


(***************************************************************************)
(* Properties of getHealthStatus, checked under SpecHealth.                *)
(***************************************************************************)

\* The health payloads in sight: the cached one and those handed to callers.
HealthPayloads ==
    (IF cacheStore[KEY_HEALTH].value # Undefined
     THEN {cacheStore[KEY_HEALTH].value} ELSE {})
    \cup {returned[c].outcome.value :
            c \in {d \in Callers : /\ returned[d] # NoReturn
                                   /\ returned[d].key = KEY_HEALTH
                                   /\ returned[d].outcome.kind = "value"}}

\* What a payload tells of the three probes: a failed probe leaves its error
\* text in its check.
StoreProbeFailed(h)   == "error" \in DOMAIN h.checks.database
TableAbsent(h)        == "initialized" \in DOMAIN h.checks.database
AgentProbeFailed(h)   == "error" \in DOMAIN h.checks.glances
CliStatusCallFailed(h) ==
    h.checks.openclaw.installed /\ "error" \in DOMAIN h.checks.openclaw

\* C19: the health call never fails; its status is "degraded" if and only if
\* the store probe failed for a reason other than the missing metrics table,
\* the metrics-agent probe failed, or the CLI is installed and its status call
\* failed; a missing table gives database.ok true with initialized false and a
\* CLI that is not installed gives openclaw.ok true.
C19_HealthNeverFails ==
    /\ \A c \in Callers :
          (returned[c] # NoReturn /\ returned[c].key = KEY_HEALTH) =>
              returned[c].outcome.kind = "value"
    /\ \A h \in HealthPayloads :
          /\ h.status \in {"ok", "degraded"}
          /\ h.status = "degraded" <=>
                \/ StoreProbeFailed(h)
                \/ AgentProbeFailed(h)
                \/ CliStatusCallFailed(h)
          /\ StoreProbeFailed(h) =>
                /\ ~ h.checks.database.ok
                /\ ~ Includes(h.checks.database.error, NO_SUCH_TABLE)
          /\ TableAbsent(h) =>
                h.checks.database.ok /\ ~ h.checks.database.initialized
          /\ h.checks.database.ok <=> ~ StoreProbeFailed(h)
          /\ h.checks.glances.ok <=> ~ AgentProbeFailed(h)
          /\ h.checks.openclaw.ok <=> ~ CliStatusCallFailed(h)
          /\ ~ h.checks.openclaw.installed => h.checks.openclaw.ok

\* The metrics table is missing and the CLI is not installed, and the health
\* call answers "ok".
C19_Witness ==
    \E c \in Callers :
        /\ returned[c] # NoReturn
        /\ returned[c].key = KEY_HEALTH
        /\ returned[c].outcome.kind = "value"
        /\ LET h == returned[c].outcome.value IN
           /\ TableAbsent(h)
           /\ ~ h.checks.openclaw.installed
           /\ h.status = "ok"

\* Each cause alone degrades the status.
C19_ReachedStoreFailed ==
    \E h \in HealthPayloads :
        StoreProbeFailed(h) /\ ~ AgentProbeFailed(h) /\ ~ CliStatusCallFailed(h)

C19_ReachedAgentFailed ==
    \E h \in HealthPayloads :
        ~ StoreProbeFailed(h) /\ AgentProbeFailed(h) /\ ~ CliStatusCallFailed(h)

C19_ReachedCliFailed ==
    \E h \in HealthPayloads :
        ~ StoreProbeFailed(h) /\ ~ AgentProbeFailed(h) /\ CliStatusCallFailed(h)


(***************************************************************************)
(* Properties of the HTTP front door, checked under SpecHttp and           *)
(* SpecFrontDoor.                                                          *)
(***************************************************************************)

\* The responses written by the step that led to this state.
Responses == {sent[c] : c \in {d \in Callers : sent[d] # NoResponse}}

\* The pathname of the request a response answers.
PathnameOf(r) == ParseUrl(r.req.url).pathname

\* r answers a GET on one of the cached resources or on the quote.
AnswersResource(r) ==
    /\ r.req.method = "GET"
    /\ ParseUrl(r.req.url).ok
    /\ ~ Truthy(GlancesPath(PathnameOf(r)))
    /\ RouteOf(PathnameOf(r)) # "none"

\* r answers a GET on a glances proxy path of the allow-list.
AnswersProxy(r) ==
    /\ r.req.method = "GET"
    /\ ParseUrl(r.req.url).ok
    /\ Truthy(GlancesPath(PathnameOf(r)))
    /\ IsAllowedEndpoint(GlancesPath(PathnameOf(r)))

IsJsonResponse(r) == r.contentType = JSON_CONTENT_TYPE /\ "json" \in DOMAIN r.body

\* C11 as stated: every response to a GET on a served path, the glances proxy
\* paths included, has status 200 whatever the upstreams did.  The proxy
\* answers 502 when the metrics agent fails.
C11_Claimed ==
    \A r \in Responses :
        AnswersResource(r) \/ AnswersProxy(r) => r.status = 200

\* C11 amended: every response to a GET on a cached resource or on the quote
\* is a JSON payload with status 200 whatever the upstreams did; a response to
\* a GET on an allow-listed glances proxy path is either the upstream response
\* with status 200 or a JSON error body with status 502.
C11_FailuresRecovered ==
    \A r \in Responses :
        /\ AnswersResource(r) => r.status = 200 /\ IsJsonResponse(r)
        /\ AnswersProxy(r) =>
              \/ r.status = 200 /\ r.upstream # Null
              \/ r.status = 502 /\ r.upstream = Null /\ IsJsonResponse(r)
                    /\ "error" \in DOMAIN r.body.json

\* A health request is answered with 200 after the store, the metrics agent
\* and the CLI all failed.
C11_Witness ==
    \E r \in Responses :
        /\ AnswersResource(r)
        /\ RouteOf(PathnameOf(r)) = "health"
        /\ r.status = 200
        /\ ~ r.body.json.checks.database.ok
        /\ ~ r.body.json.checks.glances.ok
        /\ ~ r.body.json.checks.openclaw.ok

\* C12: an exception raised at any stage of the request handler is answered
\* with a 500 JSON error: no handler's promise is rejected without a response
\* and the listener keeps accepting requests.  `new URL(req.url, ...)` at line
\* 662 stands outside the try block of lines 674-700: for the target "//" it
\* throws, no response is written and the rejection is handled nowhere.
C12_Claimed ==
    /\ listening
    /\ \A c \in Callers : conns[c].stage # "unhandledRejection"

\* C13: every upstream operation in progress, the body-reading phase of a
\* metrics-agent fetch included, is bounded by a timeout that abandons it.
\* fetchWithTimeout clears its timer as soon as fetch() resolves with the
\* response headers (lines 164-166), so response.text() (line 191) and
\* response.json() (line 175) are read with no timer armed: a metrics agent
\* that never finishes its body leaves the request unanswered and the cache
\* load pending with its in-flight handle set.
C13_Claimed ==
    /\ \A id \in LoadIds :
          IsPending(id) => HasDeadline(loads[id].key, loads[id].run)
    /\ \A c \in Callers :
          conns[c].stage = "proxy" => conns[c].timer
    /\ openclawPathPromise # Null /\ openclawPathPromise.state = "pending"
          => CommandTimeoutMs(KEY_STATUS_JSON, "awaitVersion") > 0

\* The handler of connection c is suspended on an upstream call: on the proxied
\* fetch, or on the load of a cached resource that waits for a subprocess, the
\* store or the metrics agent.
SuspendedOnUpstream(c) ==
    \/ conns[c].stage = "proxy"
    \/ /\ conns[c].stage = "awaitHandler"
       /\ callers[c] # Idle
       /\ IsPending(callers[c].load)
       /\ loads[callers[c].load].run.pc \in SubprocessPcs \cup FetchPcs

\* The cache key behind a request for a cached resource.
KeyOfRequest(req) ==
    LET url   == ParseUrl(req.url)
        route == RouteOf(url.pathname)
    IN
    CASE route = "openclaw"         -> KEY_STATS
      [] route = "openclaw/history" -> KEY_24H_TOKENS
      [] route = "history"          ->
            HistoryKey(NormalizedRange(IF url.range = "" THEN "1h" ELSE url.range))
      [] route = "cron"             -> KEY_CRON
      [] route = "tokens"           -> KEY_TOKENS
      [] route = "connections"      -> KEY_CONNECTIONS
      [] route = "processes"        -> KEY_PROCESSES
      [] route = "health"           -> KEY_HEALTH

\* req is answered in the step that accepts it: the quote, or a cached resource
\* whose entry is fresh.
AnsweredAtOnce(req) ==
    /\ ParseUrl(req.url).ok
    /\ ~ Truthy(GlancesPath(ParseUrl(req.url).pathname))
    /\ LET route == RouteOf(ParseUrl(req.url).pathname) IN
       /\ route # "none"
       /\ route # "quote" =>
             IsFresh(cacheStore[KeyOfRequest(req)], TtlOf(KeyOfRequest(req)), now)

\* C14: while the handler of one request is suspended on an upstream call, the
\* listener can accept any other request, leaving the suspended one as it is,
\* and a quote request or a request for a fresh cache entry is answered with
\* 200 in the very step that accepts it.
C14_ListenerNotBlocked ==
    \A c \in Callers, d \in Callers, req \in KeepAliveRequests :
        (listening /\ c # d /\ SuspendedOnUpstream(c) /\ conns[d] = Closed) =>
            /\ ENABLED (/\ HttpRequest(d, req, Len(Candidates))
                        /\ conns'[c] = conns[c])
            /\ AnsweredAtOnce(req) =>
                  ENABLED (/\ HttpRequest(d, req, Len(Candidates))
                           /\ conns'[c] = conns[c]
                           /\ sent'[d] # NoResponse
                           /\ sent'[d].status = 200)

\* A request for a cached resource is answered from a fresh entry while the
\* handler of another request is still suspended on an upstream call.
C14_Witness ==
    \E c \in Callers, d \in Callers :
        /\ c # d
        /\ SuspendedOnUpstream(c)
        /\ sent[d] # NoResponse
        /\ sent[d].status = 200
        /\ returned[d] # NoReturn
        /\ returned[d].how = "fresh"

\* A quote request is answered while the handler of another request is
\* suspended on an upstream call.
C14_ReachedQuote ==
    \E c \in Callers, d \in Callers :
        /\ c # d
        /\ SuspendedOnUpstream(c)
        /\ sent[d] # NoResponse
        /\ sent[d].status = 200
        /\ RouteOf(PathnameOf(sent[d])) = "quote"

\* The glances endpoint name a request asks for: what follows the glances
\* prefix (<<"">> for the empty name), or <<>> when the path has no such prefix.
RequestedName(req) ==
    IF req.method = "GET" /\ ParseUrl(req.url).ok
    THEN GlancesPath(ParseUrl(req.url).pathname)
    ELSE <<>>

InAllowList(name) == \E n \in ALLOWED_GLANCES_ENDPOINTS : name = <<n>>

IsValidUtf8(bytes) == \A i \in 1..Len(bytes) : bytes[i] \notin InvalidBytes

\* Names outside the allow-list are answered 404 and never reach the metrics
\* agent.
OnlyAllowListProxied ==
    /\ \A r \in Responses :
          (RequestedName(r.req) # <<>> /\ ~ InAllowList(RequestedName(r.req))) =>
              r.status = 404 /\ r.upstream = Null
    /\ \A c \in Callers :
          conns[c].stage = "proxy" => InAllowList(RequestedName(conns[c].req))

C16_ReachedRejected ==
    \E r \in Responses :
        /\ RequestedName(r.req) = <<"cpu", "raw">>
        /\ r.status = 404

\* The empty name is answered 404.
C16_ReachedEmptyName ==
    \E r \in Responses :
        /\ RequestedName(r.req) = <<"">>
        /\ r.status = 404

\* A body that is not valid UTF-8 is relayed changed.
C16_ReachedRecoded ==
    \E r \in Responses :
        /\ r.upstream # Null
        /\ r.body # [bytes |-> r.upstream.body]

\* The hostname part of a Host header: the bracketed address of an IPv6
\* literal, else what precedes the port.
HostnamePart(host) ==
    IF host # <<>> /\ host[1] = "["
    THEN SubSeq(host, 1, IndexOf(host, "]"))
    ELSE RequestHost(host)

\* The loopback hostnames as a URL spells them.
LoopbackHostnames ==
    {<<"localhost">>, <<"127.0.0.1">>, <<"[", ":", ":", "1", "]">>}

\* The request names an origin whose hostname is a loopback host or the
\* hostname of the request's own Host header.
OwnOrLoopbackOrigin(req) ==
    /\ req.origin # <<>>
    /\ OriginHostname(req.origin) # <<>>
    /\ \/ OriginHostname(req.origin) \in LoopbackHostnames
       \/ OriginHostname(req.origin) = HostnamePart(req.host)

\* C17: a response carries Access-Control-Allow-Origin if and only if the
\* request's Origin has a loopback hostname or the hostname of the request's
\* Host header, and the header then equals the Origin value.  The code takes
\* what precedes the first colon of the Host header for its hostname (line
\* 147): for an IPv6 literal such as [fe80::1]:8889 that is "[fe80", which
\* no origin hostname equals, so the header is absent for the server's own
\* origin.
C17_Claimed ==
    \A r \in Responses :
        /\ r.acao # NoOrigin <=> OwnOrLoopbackOrigin(r.req)
        /\ r.acao # NoOrigin => r.acao = r.req.origin

\* No cached handler has run, no cache load has started and no request waits
\* for a handler or for the metrics agent unless it is a GET request.  (Under
\* SpecFrontDoor every request for a cached resource is a non-GET request.)
NothingTriggeredByNonGet ==
    /\ \A c \in Callers :
          conns[c].stage \in {"awaitHandler", "proxy", "unhandledRejection"} =>
              conns[c].req.method = "GET"
    /\ \A c \in Callers :
          conns[c].stage = "awaitHandler" =>
              RouteOf(ParseUrl(conns[c].req.url).pathname) \notin {"none", "quote"}
    /\ (\A c \in Callers : conns[c].stage # "awaitHandler") =>
          /\ \A id \in LoadIds : ~ IsPending(id)
          /\ \A k \in Keys : cacheStore[k] = NoEntry
          /\ \A c \in Callers : callers[c] = Idle
          /\ openclawPathPromise = Null

\* C18 as stated: every request whose method is not GET is answered 405 with
\* {error: "Method not allowed"} and triggers nothing.  An OPTIONS request is
\* answered 204 or 403 with no body (lines 651-655).
C18_Claimed ==
    /\ \A r \in Responses :
          r.req.method # "GET" =>
              /\ r.status = 405
              /\ IsJsonResponse(r)
              /\ r.body.json = [error |-> "Method not allowed"]
    /\ NothingTriggeredByNonGet

\* C18 amended: every request whose method is neither GET nor OPTIONS is
\* answered 405 with {error: "Method not allowed"}; an OPTIONS request is
\* answered with an empty body and status 204 when its origin is allowed and
\* 403 when it is not; neither triggers a handler, a cache load or an upstream
\* call.
C18_NonGetRejected ==
    /\ \A r \in Responses :
          r.req.method \notin {"GET", "OPTIONS"} =>
              /\ r.status = 405
              /\ IsJsonResponse(r)
              /\ r.body.json = [error |-> "Method not allowed"]
    /\ \A r \in Responses :
          r.req.method = "OPTIONS" =>
              /\ r.status = IF r.acao # NoOrigin THEN 204 ELSE 403
              /\ r.body = Null
              /\ r.contentType = ""
    /\ NothingTriggeredByNonGet

\* A POST to a cached resource is answered 405.
C18_Witness ==
    \E r \in Responses :
        /\ r.req.method = "POST"
        /\ ParseUrl(r.req.url).ok
        /\ RouteOf(PathnameOf(r)) = "openclaw"
        /\ r.status = 405

\* A preflight from a foreign origin is answered 403, one from an allowed
\* origin 204.
C18_ReachedPreflightRefused ==
    \E r \in Responses : r.req.method = "OPTIONS" /\ r.status = 403

C18_ReachedPreflightAllowed ==
    \E r \in Responses : r.req.method = "OPTIONS" /\ r.status = 204

(***************************************************************************)
(* Properties of getHistory, checked under SpecHistory.                    *)
(***************************************************************************)
\* The window, in seconds, the specification gives each range.
WindowOf ==
    [r \in Ranges |->
        CASE r = "1h"  -> 60 * 60
          [] r = "8h"  -> 8 * 60 * 60
          [] r = "24h" -> 24 * 60 * 60
          [] r = "7d"  -> 7 * 24 * 60 * 60
          [] r = "30d" -> 30 * 24 * 60 * 60]

\* The range a request for the history is served for: the one it asks for when
\* that is one of the five, "1h" otherwise.
ServedRange(req) ==
    IF ParseUrl(req.url).range \in Ranges THEN ParseUrl(req.url).range ELSE "1h"

\* req is a GET for the history.
AsksHistory(req) ==
    /\ req.method = "GET"
    /\ ParseUrl(req.url).ok
    /\ RouteOf(ParseUrl(req.url).pathname) = "history"

\* C21: a request for the history whose range is missing, unknown or the name
\* of an inherited object property is served as a request for "1h": its
\* handler awaits the cache entry "history:1h", the loader behind that entry
\* queries a window of 3600 seconds, and the response is 200 with range "1h"
\* and the value of that entry; a request for one of the five ranges awaits
\* that range's entry, whose loader queries 3600, 28800, 86400, 604800 or
\* 2592000 seconds, counted back from the second the loader started in.
C21_RangeNormalized ==
    /\ \A c \in Callers :
          (conns[c].stage = "awaitHandler" /\ AsksHistory(conns[c].req)) =>
              LET range == ServedRange(conns[c].req) IN
              /\ callers[c].key = HistoryKey(range)
              /\ IsPending(callers[c].load)
              /\ loads[callers[c].load].key = HistoryKey(range)
              /\ loads[callers[c].load].run.mem.range = range
              /\ loads[callers[c].load].run.mem.seconds = WindowOf[range]
              /\ loads[callers[c].load].run.mem.since + WindowOf[range]
                    <= now \div 1000
    /\ \A c \in Callers :
          (sent[c] # NoResponse /\ AsksHistory(sent[c].req)) =>
              LET range == ServedRange(sent[c].req) IN
              /\ sent[c].status = 200
              /\ IsJsonResponse(sent[c])
              /\ sent[c].body.json.range = range
              /\ returned[c].key = HistoryKey(range)
              /\ sent[c].body.json = cacheStore[HistoryKey(range)].value

\* A request naming an inherited object property is answered from the entry a
\* request for "1h" filled.
C21_Witness ==
    \E c \in Callers :
        /\ sent[c] # NoResponse
        /\ AsksHistory(sent[c].req)
        /\ ParseUrl(sent[c].req.url).range = "constructor"
        /\ returned[c].how = "fresh"
        /\ sent[c].status = 200
        /\ sent[c].body.json.range = "1h"

\* A request without a range joins the load a request for an unknown range
\* started, and both are answered with range "1h".
C21_ReachedJoined ==
    \E c \in Callers, d \in Callers :
        /\ c # d
        /\ sent[c] # NoResponse /\ sent[d] # NoResponse
        /\ AsksHistory(sent[c].req) /\ AsksHistory(sent[d].req)
        /\ ParseUrl(sent[c].req.url).range = "bogus"
        /\ ParseUrl(sent[d].req.url).range = ""
        /\ returned[d].how = "joined"
        /\ sent[d].body = sent[c].body

\* A request for thirty days is being loaded over its window.
C21_ReachedMonth ==
    \E c \in Callers :
        /\ conns[c].stage = "awaitHandler"
        /\ AsksHistory(conns[c].req)
        /\ IsPending(callers[c].load)
        /\ loads[callers[c].load].run.mem.seconds = 2592000

(***************************************************************************)
(* Properties of getProcessInsights, checked under SpecProcesses.          *)
(***************************************************************************)
\* The insights results in the cache or handed to a caller.
InsightResults ==
    {cacheStore[k].value : k \in {j \in {KEY_PROCESSES} : cacheStore[j].value # Undefined}}

\* The groups of the store that qualify as the historical average of name.
QualifyingAverages(groups, name) ==
    {groups[i] : i \in {j \in 1..Len(groups) :
                          groups[j].name = name /\ groups[j].samples > 5}}

\* The classification of C22 for a current sample (CPU in hundredths of a
\* percent, RAM in bytes) against the groups of the store.
ClaimedAnomaly(proc, groups) ==
    LET averages == QualifyingAverages(groups, proc.name) IN
    IF averages = {} THEN "null"
    ELSE LET mean == CHOOSE g \in averages : TRUE IN
         IF mean.avg_cpu > 100 /\ proc.cpu > 2 * mean.avg_cpu THEN "cpu_high"
         ELSE IF mean.avg_ram > 50 * 1048576 /\ 2 * proc.ram_mb > 3 * mean.avg_ram
              THEN "ram_high"
         ELSE "null"

\* C22: when the store answers the averages query, every process of the result
\* is flagged cpu_high iff its name has an average of more than 5 samples whose
\* mean CPU exceeds 1 and is less than half the current CPU; otherwise
\* ram_high iff it has such an average whose mean RAM exceeds 50 and the
\* current RAM exceeds one and a half times it; otherwise null.
C22_AnomalyClassified ==
    [][\A id \in LoadIds, groups \in StoreGroups :
          ProcessHistoryDone(id, AveragesOf(groups)) =>
              LET procs  == loads[id].run.mem.procs
                  result == cacheStore'[KEY_PROCESSES].value
              IN
              /\ Len(result.processes) = Min(Len(procs), 8)
              /\ \A i \in 1..Len(result.processes) :
                    /\ result.processes[i].name = procs[i].name
                    /\ result.processes[i].anomaly = ClaimedAnomaly(procs[i], groups)]_vars

\* Current CPU 10 against a mean of 4 is flagged cpu_high.
C22_Witness ==
    \E r \in InsightResults : \E i \in 1..Len(r.processes) :
        /\ r.processes[i].cpu = 1000
        /\ r.processes[i].avg_cpu = Number(400)
        /\ r.processes[i].anomaly = "cpu_high"

\* Current CPU 10 against a mean of 6 is not flagged.
C22_ReachedNull ==
    \E r \in InsightResults : \E i \in 1..Len(r.processes) :
        /\ r.processes[i].cpu = 1000
        /\ r.processes[i].avg_cpu = Number(600)
        /\ r.processes[i].anomaly = "null"

\* Current CPU 10 against a mean of 5 is not cpu_high, and 200 MB against a
\* mean of 60 MB is ram_high.
C22_ReachedRam ==
    \E r \in InsightResults : \E i \in 1..Len(r.processes) :
        /\ r.processes[i].cpu = 1000
        /\ r.processes[i].avg_cpu = Number(500)
        /\ r.processes[i].ram_mb = 200
        /\ r.processes[i].avg_ram = Number(60)
        /\ r.processes[i].anomaly = "ram_high"

\* Both tests hold and the flag is cpu_high.
C22_ReachedBoth ==
    \E r \in InsightResults : \E i \in 1..Len(r.processes) :
        /\ r.processes[i].cpu = 1000
        /\ r.processes[i].avg_cpu = Number(400)
        /\ r.processes[i].ram_mb = 200
        /\ r.processes[i].avg_ram = Number(60)
        /\ r.processes[i].anomaly = "cpu_high"

\* The number of processes of the list with more CPU than p.
ProcessesAbove(list, p) ==
    Cardinality({k \in 1..Len(list) : list[k].cpu_percent > p.cpu_percent})

\* The name an entry shows for the process p.
ShownName(p) == IF p.name = "" THEN "unknown" ELSE p.name

\* C28: the processes array has at most 8 entries, no name twice and the
\* entries in non-increasing order of current CPU; every current process kept
\* from a list of the metrics agent is one of the 10 processes of the list with
\* the most CPU, and the processes array is made of the first of them; an
\* entry has a number as avg_cpu or avg_ram only when the store holds more
\* than 5 samples of its name.
C28_TopProcesses ==
    /\ [](\A r \in InsightResults :
            /\ Len(r.processes) <= 8
            /\ \A i \in 1..Len(r.processes) : \A j \in 1..Len(r.processes) :
                  /\ (i # j) => r.processes[i].name # r.processes[j].name
                  /\ (i < j) => r.processes[i].cpu >= r.processes[j].cpu)
    /\ [][\A id \in LoadIds, body \in ProcessBodies, first \in OnPathOnly :
            (AtPc(id, KEY_PROCESSES, "awaitBody") /\ IsArray(body)
               /\ GlancesJson(id, Ok(body), first)) =>
                \A i \in 1..Len(loads'[id].run.mem.procs) :
                    \E j \in 1..Len(body.items) :
                        /\ loads'[id].run.mem.procs[i].name = ShownName(body.items[j])
                        /\ loads'[id].run.mem.procs[i].cpu = body.items[j].cpu_percent
                        /\ ProcessesAbove(body.items, body.items[j]) < 10]_vars
    /\ [][\A id \in LoadIds, groups \in StoreGroups :
            ProcessHistoryDone(id, AveragesOf(groups)) =>
                LET procs  == loads[id].run.mem.procs
                    result == cacheStore'[KEY_PROCESSES].value
                IN
                \A i \in 1..Len(result.processes) :
                    /\ i <= Len(procs)
                    /\ result.processes[i].name = procs[i].name
                    /\ result.processes[i].cpu = ((procs[i].cpu + 5) \div 10) * 10
                    /\ ("number" \in DOMAIN result.processes[i].avg_cpu
                          \/ "number" \in DOMAIN result.processes[i].avg_ram) =>
                            QualifyingAverages(groups, procs[i].name) # {}]_vars

\* Eleven processes with eleven names came in: eight are shown.
C28_Witness ==
    \E r \in InsightResults :
        /\ Len(r.processes) = 8
        /\ r.processes[1].name = "a"
        /\ r.processes[1].cpu > r.processes[8].cpu
        /\ r.processes[1].avg_cpu = Number(200)
        /\ r.processes[2].avg_cpu = Null

\* One name fills four places of the cut: seven are shown, and the name beyond
\* the cut is not among them.
C28_ReachedDuplicates ==
    \E r \in InsightResults :
        /\ Len(r.processes) = 7
        /\ r.processes[1].name = "a"
        /\ r.processes[7].name = "g"

\* The list came in from the lowest CPU to the highest: the shown ones are the
\* highest, in decreasing order.
C28_ReachedSorted ==
    \E r \in InsightResults :
        /\ Len(r.processes) = 8
        /\ r.processes[1].name = "k"
        /\ r.processes[8].name = "d"

\* A process named as an inherited property shows NaN as its averages.
C28_ReachedInherited ==
    \E r \in InsightResults : \E i \in 1..Len(r.processes) :
        /\ r.processes[i].name = "constructor"
        /\ r.processes[i].avg_cpu = NaN
        /\ r.processes[i].anomaly = "null"

\* The metrics agent fails to answer load id with a process list in this step:
\* the request fails, the status is an error, the body cannot be read or the
\* body is no list.
AgentGivesNoList(id) ==
    /\ AtPc(id, KEY_PROCESSES, loads[id].run.pc)
    /\ \/ \E outcome \in HeaderOutcomes \ {"ok"}, first \in OnPathOnly :
             GlancesHeaders(id, outcome, first)
       \/ \E first \in OnPathOnly,
             result \in {Ok(body) : body \in {b \in ProcessBodies : ~ IsArray(b)}}
                           \cup {Thrown("terminated")} :
             GlancesJson(id, result, first)

\* The store holds a name with more than 5 samples of the last 24 hours.
HasQualifyingName(groups) ==
    \E i \in 1..Len(groups) : groups[i].samples > 5

\* The loader of promise id resolves in this step with no current process and
\* with hasHistory as given.
ResolvesFromHistoryAlone(id, hasHistory) ==
    /\ loads'[id] = Settled
    /\ cacheStore'[KEY_PROCESSES].value # Undefined
    /\ cacheStore'[KEY_PROCESSES].value.processes = <<>>
    /\ cacheStore'[KEY_PROCESSES].value.anomalies = <<>>
    /\ cacheStore'[KEY_PROCESSES].value.hasHistory = hasHistory
    /\ \A c \in Callers :
          (callers[c] # Idle /\ callers[c].load = id) =>
              /\ returned'[c] # NoReturn
              /\ returned'[c].outcome.kind = "value"

\* C29 as stated: without a current process list the call resolves with
\* hasHistory true exactly when the store holds a name with more than 5
\* samples, whatever the averages query ends with.  A query that fails on a
\* store holding such a name resolves with hasHistory false.
C29_Claimed ==
    [][\A id \in LoadIds, groups \in StoreGroups :
          \A answer \in {AveragesOf(groups), DB_LOCKED} :
              (AtPc(id, KEY_PROCESSES, "awaitDb") /\ loads[id].run.mem.procs = <<>>
                 /\ ProcessHistoryDone(id, answer)) =>
                  ResolvesFromHistoryAlone(id, HasQualifyingName(groups))]_vars

\* C29: when the metrics agent gives no process list the loader goes on to the
\* store with an empty current-process list; from there the call never fails:
\* it resolves with no process, and with hasHistory true exactly when the
\* averages query succeeds and the store holds a name with more than 5 samples
\* of the last 24 hours (false when the query fails).
C29_HistoryAlone ==
    /\ [][\A id \in LoadIds :
            AgentGivesNoList(id) =>
                /\ IsPending(id)'
                /\ loads'[id].run.pc = "awaitDb"
                /\ loads'[id].run.mem.procs = <<>>]_vars
    /\ [][\A id \in LoadIds, groups \in StoreGroups :
            (AtPc(id, KEY_PROCESSES, "awaitDb") /\ loads[id].run.mem.procs = <<>>
               /\ ProcessHistoryDone(id, AveragesOf(groups))) =>
                ResolvesFromHistoryAlone(id, HasQualifyingName(groups))]_vars
    /\ [][\A id \in LoadIds, answer \in DbFailures \cup {DB_LOCKED} :
            (AtPc(id, KEY_PROCESSES, "awaitDb") /\ loads[id].run.mem.procs = <<>>
               /\ ProcessHistoryDone(id, answer)) =>
                ResolvesFromHistoryAlone(id, FALSE)]_vars

\* The agent gave no list and the store answered with a qualifying name.
C29_Witness ==
    \E r \in InsightResults :
        /\ r.processes = <<>>
        /\ r.hasHistory
        /\ \E c \in Callers :
              /\ returned[c] # NoReturn
              /\ returned[c].how = "started"
              /\ returned[c].outcome = Fulfilled(r, "loader")

(***************************************************************************)
(* Properties of getTokenBreakdown and getCronJobs, checked under SpecCli. *)
(***************************************************************************)
\* The token breakdowns in the cache.
Breakdowns ==
    {cacheStore[k].value : k \in {j \in {KEY_TOKENS} : cacheStore[j].value # Undefined}}

\* n is an integer nearest to num / den.
IsNearest(n, num, den) ==
    /\ 2 * (den * n - num) <= den
    /\ 2 * (num - den * n) <= den

\* r answers a GET on the given resource.
AnswersRoute(r, route) ==
    /\ r.req.method = "GET"
    /\ ParseUrl(r.req.url).ok
    /\ RouteOf(ParseUrl(r.req.url).pathname) = route

\* C23: when the tokens loader resumes with the status, the breakdown's total
\* is the sum of totalTokens over the first 10 recent sessions at most, its
\* input the integer nearest to a quarter of the total and its output the
\* integer nearest to three quarters (250 and 750 for a total of 1000); when it
\* resumes with a failure the breakdown is 0, 0, 0 with the label of an
\* unavailable estimate.  Every request for the breakdown is answered with 200.
C23_Breakdown ==
    /\ [][\A id \in LoadIds :
            TokensGotStatus(id) =>
                LET inbox  == loads[id].run.inbox
                    result == cacheStore'[KEY_TOKENS].value
                IN
                IF inbox.kind = "value"
                THEN LET recent == inbox.value.sessions.recent IN
                     /\ result.total = SumTokens(recent, IF Len(recent) < 10
                                                         THEN Len(recent) ELSE 10)
                     /\ IsNearest(result.input, result.total, 4)
                     /\ IsNearest(result.output, 3 * result.total, 4)
                     /\ result.total = 1000 => result.input = 250 /\ result.output = 750
                     /\ result.estimateLabel # UNAVAILABLE_LABEL
                ELSE /\ result.input = 0 /\ result.output = 0 /\ result.total = 0
                     /\ result.estimateLabel = UNAVAILABLE_LABEL]_vars
    /\ [](\A r \in Responses :
            AnswersRoute(r, "tokens") =>
                /\ r.status = 200
                /\ r.body.json \in Breakdowns)

\* Twelve sessions of 100 tokens: the first ten are counted, 250 and 750.
C23_Witness ==
    /\ cacheStore[KEY_STATUS_JSON].value # Undefined
    /\ Len(cacheStore[KEY_STATUS_JSON].value.sessions.recent) = MaxSessions
    /\ \E b \in Breakdowns :
          b.total = 1000 /\ b.input = 250 /\ b.output = 750

\* A total of 2 is split into 1 and 2: both halves round up.
C23_ReachedHalves ==
    \E b \in Breakdowns : b.total = 2 /\ b.input = 1 /\ b.output = 2

\* The status was not available: a request is answered with the zeroed
\* breakdown.
C23_ReachedUnavailable ==
    \E r \in Responses :
        /\ AnswersRoute(r, "tokens")
        /\ r.status = 200
        /\ r.body.json.total = 0
        /\ r.body.json.estimateLabel = UNAVAILABLE_LABEL

\* The family named first, in the order of the rules, among those one of
\* whose spellings the lower-cased name contains; "default" when there is none.
FirstFamily(name, spellings) ==
    LET lower == ToLowerCase(name)
        Has(family) == \E needle \in spellings[family] : StrIncludes(lower, needle)
    IN IF Has("claude-opus-4-5") THEN "claude-opus-4-5"
       ELSE IF Has("claude-sonnet-4") THEN "claude-sonnet-4"
       ELSE IF Has("claude-3-5-sonnet") THEN "claude-3-5-sonnet"
       ELSE "default"

\* The costs of breakdown b are its tokens times the rates of its family, and
\* the total is their sum.
CostsFollowFamily(b) ==
    /\ b.pricingModel \in DOMAIN PRICING
    /\ b.cost.input = b.input * PRICING[b.pricingModel].input
    /\ b.cost.output = b.output * PRICING[b.pricingModel].output
    /\ b.cost.total = b.cost.input + b.cost.output

\* C26 as stated: the family is the first of opus-4-5, sonnet-4, 3-5-sonnet
\* whose substring the name contains.  A name spelled "3.5-sonnet" is priced
\* as claude-3-5-sonnet although it contains none of the three.
C26_Claimed ==
    \A b \in Breakdowns :
        "pricingModel" \in DOMAIN b =>
            /\ CostsFollowFamily(b)
            /\ b.pricingModel =
                  FirstFamily(b.model,
                      [family \in {"claude-opus-4-5", "claude-sonnet-4", "claude-3-5-sonnet"} |->
                          CASE family = "claude-opus-4-5"   -> {OPUS_4_5}
                            [] family = "claude-sonnet-4"   -> {SONNET_4}
                            [] family = "claude-3-5-sonnet" -> {S3_5_SONNET}])

\* C26: the family of a breakdown is the first, in the order opus-4-5,
\* sonnet-4, 3-5-sonnet, whose substring ("3-5-sonnet" or "3.5-sonnet" for the
\* third) the lower-cased model name contains, and the default when there is
\* none; it is a key of the pricing table, each cost is the tokens times the
\* family's rate per million and the total cost is the sum of the two.
C26_Pricing ==
    \A b \in Breakdowns :
        "pricingModel" \in DOMAIN b =>
            /\ CostsFollowFamily(b)
            /\ b.pricingModel =
                  FirstFamily(b.model,
                      [family \in {"claude-opus-4-5", "claude-sonnet-4", "claude-3-5-sonnet"} |->
                          CASE family = "claude-opus-4-5"   -> {OPUS_4_5}
                            [] family = "claude-sonnet-4"   -> {SONNET_4}
                            [] family = "claude-3-5-sonnet" -> {S3_5_SONNET, S3DOT5_SONNET}])

\* A name that contains "3-5-sonnet" and "sonnet-4" is priced as
\* claude-sonnet-4, the earlier rule.
C26_Witness ==
    \E b \in Breakdowns :
        /\ "pricingModel" \in DOMAIN b
        /\ StrIncludes(b.model, S3_5_SONNET)
        /\ StrIncludes(b.model, SONNET_4)
        /\ b.pricingModel = "claude-sonnet-4"
        /\ b.total = 1000
        /\ b.cost.total = 250 * 3 + 750 * 15

\* A name written with capitals is priced as claude-opus-4-5.
C26_ReachedCapitals ==
    \E b \in Breakdowns :
        /\ "pricingModel" \in DOMAIN b
        /\ b.model # ToLowerCase(b.model)
        /\ b.pricingModel = "claude-opus-4-5"

\* No session names a model and the status names no default: the name is
\* "default" and so is the family.
C26_ReachedDefault ==
    \E b \in Breakdowns :
        /\ "pricingModel" \in DOMAIN b
        /\ b.model = W_DEFAULT
        /\ b.pricingModel = "default"

\* A name spelled "3.5-sonnet" is priced as claude-3-5-sonnet.
C26_ReachedDotted ==
    \E b \in Breakdowns :
        /\ "pricingModel" \in DOMAIN b
        /\ StrIncludes(b.model, S3DOT5_SONNET)
        /\ b.pricingModel = "claude-3-5-sonnet"

\* The outcomes of the cron command that give no JSON value: a failure, a
\* timeout, and output JSON.parse rejects.
CronFailures ==
    {out \in CommandOutcomes(CronData) :
        out.kind = "error" \/ ParseCronOutput(out.value).kind = "error"}

\* The cron loader of promise id ends in this step without a parsed list:
\* there is no CLI, or the command gives no JSON value.
CronUnavailable(id) ==
    \/ /\ AtPc(id, KEY_CRON, "awaitPath")
       /\ PathResolved
       /\ openclawPathPromise.path = Null
       /\ CronGotPath(id)
    \/ \E out \in CronFailures : CronCommandDone(id, out)

\* C24: every request for the cron jobs is answered with 200 and a jobs list;
\* when the CLI is not installed, or the cron command fails, times out or
\* prints what cannot be parsed, the handlers waiting for it answer 200 with
\* {jobs: []}.
C24_CronNeverFails ==
    /\ [](\A r \in Responses :
            AnswersRoute(r, "cron") =>
                /\ r.status = 200
                /\ IsJsonResponse(r)
                /\ DOMAIN r.body.json = {"jobs"})
    /\ [][\A id \in LoadIds :
            CronUnavailable(id) =>
                /\ cacheStore'[KEY_CRON].value = Array(<<>>)
                /\ \A c \in Callers :
                      (conns[c].stage = "awaitHandler" /\ callers[c].load = id) =>
                          /\ sent'[c] # NoResponse
                          /\ sent'[c].status = 200
                          /\ sent'[c].body.json = [jobs |-> <<>>]]_vars

\* The CLI is not installed and a request for the cron jobs is answered with
\* 200 and no job.
C24_Witness ==
    /\ PathResolved
    /\ openclawPathPromise.path = Null
    /\ \E r \in Responses :
          /\ AnswersRoute(r, "cron")
          /\ r.status = 200
          /\ r.body.json = [jobs |-> <<>>]

\* The CLI is installed and a request is answered with no job.
C24_ReachedCommandFailed ==
    /\ PathResolved
    /\ openclawPathPromise.path # Null
    /\ \E r \in Responses :
          /\ AnswersRoute(r, "cron")
          /\ r.status = 200
          /\ r.body.json = [jobs |-> <<>>]

\* A request is answered with a job.
C24_ReachedJobs ==
    \E r \in Responses :
        /\ AnswersRoute(r, "cron")
        /\ r.status = 200
        /\ Len(r.body.json.jobs) = 1

\* C25 as stated: a CLI command that prints text without "{" and then a JSON
\* object ends as the command that prints the object alone does, for the
\* status command and for the cron command.  The cron command's output is
\* parsed as it is: behind a warning the job list is lost.
C25_Claimed ==
    [][\A id \in LoadIds, prefix \in Prefixes :
          /\ \A status \in TokenStatuses :
                CliStatusDone(id, Ok(prefix \o <<JsonText(status)>>)) =>
                    CliStatusDone(id, Ok(<<JsonText(status)>>))
          /\ \A data \in CronData :
                CronCommandDone(id, Ok(prefix \o <<JsonText(data)>>)) =>
                    CronCommandDone(id, Ok(<<JsonText(data)>>))]_vars

\* The half of C25 that holds: the status command's output is parsed from its
\* first "{" on.
C25_StatusStripped ==
    [][\A id \in LoadIds, prefix \in Prefixes, status \in TokenStatuses :
          CliStatusDone(id, Ok(prefix \o <<JsonText(status)>>)) =>
              /\ CliStatusDone(id, Ok(<<JsonText(status)>>))
              /\ cacheStore'[KEY_STATUS_JSON].value = status]_vars

(***************************************************************************)
(* Properties of getConnections, checked under SpecConnections.            *)
(***************************************************************************)
\* host names a loopback destination: localhost, an address of 127.0.0.0/8 or
\* the IPv6 loopback address.
IsLoopbackDestination(host) ==
    \/ Includes(host, "localhost")
    \/ host \in {<<"127.0.0.1">>, <<"127.0.0.53">>, <<"::1">>}

\* The connection c comes from one of the lines: an ESTABLISHED line of its
\* process whose arrow is followed by its host, a colon and a port.
ComesFromLine(c, lines) ==
    \E i \in 1..Len(lines) :
        /\ lines[i].established
        /\ lines[i].process = c.process
        /\ Len(lines[i].remote) >= 2
        /\ lines[i].remote[1] = c.host

\* The list has at most 10 entries, no (process, host) pair twice, and every
\* entry comes from an ESTABLISHED line with a remote host and port.
IsConnectionList(list, lines) ==
    /\ Len(list) <= 10
    /\ \A i \in 1..Len(list) : \A j \in 1..Len(list) :
          (i # j) => <<list[i].process, list[i].host>> # <<list[j].process, list[j].host>>
    /\ \A i \in 1..Len(list) : ComesFromLine(list[i], lines)

\* C27 as stated: whatever lsof prints, the connections are at most 10, hold
\* no (process, host) pair twice and no loopback destination, and each comes
\* from an ESTABLISHED line with a remote host and port; a failure of the
\* command gives the empty list.  A connection to 127.0.0.53 is kept.
C27_Claimed ==
    [][\A id \in LoadIds, out \in LsofOutcomes :
          LsofCommandDone(id, out) =>
              LET list == cacheStore'[KEY_CONNECTIONS].value.items IN
              IF out.kind = "value"
              THEN /\ IsConnectionList(list, out.value)
                   /\ \A i \in 1..Len(list) : ~ IsLoopbackDestination(list[i].host)
              ELSE list = <<>>]_vars

\* What holds of C27: the list is as stated, with no host that holds
\* "localhost" or "127.0.0.1"; a failure gives the empty list and every
\* request is answered with 200.
C27_Filtered ==
    /\ [][\A id \in LoadIds, out \in LsofOutcomes :
            LsofCommandDone(id, out) =>
                LET list == cacheStore'[KEY_CONNECTIONS].value.items IN
                IF out.kind = "value"
                THEN /\ IsConnectionList(list, out.value)
                     /\ \A i \in 1..Len(list) :
                           /\ ~ Includes(list[i].host, "localhost")
                           /\ ~ Includes(list[i].host, "127.0.0.1")
                ELSE list = <<>>]_vars
    /\ [](\A r \in Responses :
            AnswersRoute(r, "connections") =>
                /\ r.status = 200
                /\ DOMAIN r.body.json = {"connections"})

\* Twenty-five hosts were connected: ten are listed.
C27_ReachedCapped ==
    /\ cacheStore[KEY_CONNECTIONS].value # Undefined
    /\ Len(cacheStore[KEY_CONNECTIONS].value.items) = 10

\* Two connections of one process to one host: the later one is listed.
C27_ReachedDeduplicated ==
    /\ cacheStore[KEY_CONNECTIONS].value # Undefined
    /\ cacheStore[KEY_CONNECTIONS].value.items
          = <<[process |-> "node", host |-> <<"203.0.113.7">>, port |-> 8443]>>

(***************************************************************************)
(* Properties of the path table.                                           *)
(***************************************************************************)
\* The resources of the path table, by their bare paths.
TablePaths ==
    {<<"openclaw">>, <<"openclaw", "history">>, <<"history">>, <<"cron">>,
     <<"tokens">>, <<"connections">>, <<"quote">>, <<"processes">>, <<"health">>}

\* The /api/ alias of a bare path.
AliasOf(path) == <<"api">> \o path

\* The path of a request target is glances/<name> or its alias, with a name.
IsGlancesTarget(path) ==
    \/ Len(path) >= 2 /\ path[1] = "glances" /\ path[2] # ""
    \/ Len(path) >= 3 /\ path[1] = "api" /\ path[2] = "glances" /\ path[3] # ""

\* The path of a request target is none of the path table, at neither form.
IsOtherTarget(path) ==
    /\ path \notin TablePaths
    /\ path \notin {AliasOf(p) : p \in TablePaths}
    /\ ~ IsGlancesTarget(path)

\* A bare path and its alias name the same resource, cache key and glances
\* endpoint.
SameHandlerAtBothPaths ==
    /\ \A path \in TablePaths, range \in RangeInputs :
          /\ RouteOf(path) # "none"
          /\ RouteOf(AliasOf(path)) = RouteOf(path)
          /\ RouteOf(path) # "quote" =>
                KeyOfRequest(Request("GET", Target(AliasOf(path), range), NoOrigin, LAN_HOST))
                   = KeyOfRequest(Request("GET", Target(path, range), NoOrigin, LAN_HOST))
    /\ \A name \in ALLOWED_GLANCES_ENDPOINTS \cup {"foo"} :
          /\ Truthy(GlancesPath(<<"glances", name>>))
          /\ GlancesPath(AliasOf(<<"glances", name>>)) = GlancesPath(<<"glances", name>>)

\* C30 as stated: a bare path and its alias are dispatched alike, and a GET on
\* any other path is answered 404 {error: "Not found"}.  A target that starts
\* with "//" is read as an authority and a path: "//" gets no response at all
\* (C12), and "//evil.example/api/quote" is answered with a quote.
C30_Claimed ==
    /\ SameHandlerAtBothPaths
    /\ \A c \in Callers :
          /\ conns[c].stage # "unhandledRejection"
          /\ (sent[c] # NoResponse /\ sent[c].req.method = "GET"
                /\ IsOtherTarget(sent[c].req.url.path)) =>
                  /\ sent[c].status = 404
                  /\ sent[c].body = [json |-> [error |-> "Not found"]]

\* What holds of C30: a bare path and its alias are dispatched alike; a
\* handler awaits the cache key of the resource its path names, with or
\* without the alias; and a GET on a path of one segment or more that names no
\* resource is answered 404 {error: "Not found"}.
C30_AliasesAlike ==
    /\ SameHandlerAtBothPaths
    /\ \A c \in Callers :
          conns[c].stage = "awaitHandler" =>
              LET path == conns[c].req.url.path
                  bare == IF path \in TablePaths THEN path ELSE Tail(path)
              IN
              /\ bare \in TablePaths
              /\ path \in {bare, AliasOf(bare)}
              /\ conns[c].route = RouteOf(bare)
              /\ callers[c].key = KeyOfRequest(
                     Request("GET", Target(bare, conns[c].req.url.range), NoOrigin, LAN_HOST))
    /\ \A c \in Callers :
          (sent[c] # NoResponse /\ sent[c].req.method = "GET"
             /\ IsOtherTarget(sent[c].req.url.path)
             /\ sent[c].req.url.path[1] # "") =>
                /\ sent[c].status = 404
                /\ sent[c].body = [json |-> [error |-> "Not found"]]

(***************************************************************************)
(* The refresh of degraded payloads, checked under SpecDegraded.           *)
(***************************************************************************)

\* Clock advances in one behaviour of SpecDegraded: the longest TTL elapses.
LongTicks == 3

\* The clock advances between callbacks, up to LongTicks times.
TickLong ==
    /\ now + Quantum <= BootTime + LongTicks * Quantum
    /\ now' = now + Quantum
    /\ returned' = NoReturns
    /\ UNCHANGED <<cacheStore, loads, callers, lastKnownOpenClaw, openclawPathPromise>>

\* What the store holds of the usage: nothing, or two rows.
FewUsageAnswers == {DbRows(<<>>), DbRows(<<Row(1, 5), Row(2, 7)>>)}

\* No call has reached the cache entry of any of keys.
Untouched(keys) == \A key \in keys : cacheStore[key] = NoEntry

\* The callers of the three handlers that run the CLI, with the CLI found or
\* not, its commands answering or failing at will, and the clock running past
\* every TTL.  The calls of one behaviour go to the cron jobs alone, or to the
\* status and the token breakdown.
NextDegraded ==
    \/ TickLong /\ UNCHANGED httpVars
    \/ \E c \in Callers, first \in OnPathOnly :
          Untouched({KEY_CRON}) /\ GetOpenClawStats(c, first) /\ UNCHANGED httpVars
    \/ \E c \in Callers, first \in OnPathOnly :
          Untouched({KEY_CRON}) /\ GetTokenBreakdown(c, first) /\ UNCHANGED httpVars
    \/ \E c \in Callers, first \in OnPathOnly :
          Untouched({KEY_STATS, KEY_TOKENS}) /\ GetCronJobs(c, first)
             /\ UNCHANGED httpVars
    \/ ProbeVersionOk /\ UNCHANGED httpVars
    \/ \E next \in CandidateIds :
          ProbeVersionFails(next) /\ UNCHANGED httpVars
    \/ \E id \in LoadIds :
          StatusJsonGotPath(id) /\ UNCHANGED httpVars
    \/ \E id \in LoadIds, status \in CliStatusOutputs :
          CliStatusOk(id, status) /\ UNCHANGED httpVars
    \/ \E id \in LoadIds :
          CliStatusFails(id) /\ UNCHANGED httpVars
    \/ \E id \in LoadIds, answer \in FewUsageAnswers :
          UsageQueryDone(id, answer) /\ UNCHANGED httpVars
    \/ \E id \in LoadIds :
          StatsGotStatus(id) /\ UNCHANGED httpVars
    \/ \E id \in LoadIds :
          StatsGot24h(id) /\ UNCHANGED httpVars
    \/ \E id \in LoadIds, rows \in LatestRowSets, first \in OnPathOnly :
          LatestRowQueryDone(id, rows, first) /\ UNCHANGED httpVars
    \/ \E id \in LoadIds :
          StatsGot24hFallback(id) /\ UNCHANGED httpVars
    \/ \E id \in LoadIds :
          StatsGotPath(id) /\ UNCHANGED httpVars
    \/ \E id \in LoadIds :
          TokensGotStatus(id) /\ UNCHANGED httpVars
    \/ \E id \in LoadIds :
          CronGotPath(id) /\ UNCHANGED httpVars
    \/ \E id \in LoadIds, out \in CronOutputs :
          CronListDone(id, out) /\ UNCHANGED httpVars

SpecDegraded == Init /\ [][NextDegraded]_vars

\* The handlers whose loader runs the CLI, and the TTL the claim gives each.
CliKeys == {KEY_STATS, KEY_TOKENS, KEY_CRON}

ClaimedTtl(key) == IF key = KEY_CRON THEN 15000 ELSE 10000

\* The key whose loader starts the CLI command that the loader of key needs.
CliKeyOf(key) == IF key = KEY_CRON THEN KEY_CRON ELSE KEY_STATUS_JSON

\* The payload a handler falls back to when the CLI failed it.
IsDegraded(key, value) ==
    CASE key = KEY_STATS  -> value.status \in {"down", "unknown"}
      [] key = KEY_TOKENS -> value = NoBreakdown
      [] key = KEY_CRON   -> value = Array(<<>>)

\* The loader of promise id ends in this step, the CLI having failed it.
SettlesAfterCliFailure(id) ==
    /\ loads[id] # Settled
    /\ loads'[id] = Settled
    /\ CASE loads[id].key = KEY_STATS  -> StatusCallFailed(id)
         [] loads[id].key = KEY_TOKENS ->
               /\ loads[id].run.inbox # Nothing
               /\ loads[id].run.inbox.kind = "error"
         [] loads[id].key = KEY_CRON   ->
               \E out \in CronOutputs : out.kind = "error" /\ CronListDone(id, out)
         [] OTHER -> FALSE

\* The fallback payload is stored as a success would be, and handed to every
\* caller of the load.
StoredAsSuccess(id) ==
    LET key   == loads[id].key
        entry == cacheStore'[key]
    IN
    /\ entry.value # Undefined
    /\ IsDegraded(key, entry.value)
    /\ entry.timestamp = now
    /\ entry.inFlight = NoLoad
    /\ \A c \in Callers : callers[c].load = id =>
          /\ returned'[c] # NoReturn
          /\ returned'[c].outcome = Fulfilled(entry.value, "loader")

\* Caller c calls in this step a handler whose entry holds a degraded payload.
CallsDegraded(c) ==
    /\ CalledNow(c)
    /\ CalledKey(c) \in CliKeys
    /\ cacheStore[CalledKey(c)].value # Undefined
    /\ IsDegraded(CalledKey(c), cacheStore[CalledKey(c)].value)

\* Within the TTL the call is served the payload and nothing is started.
ServedDegraded(c) ==
    /\ returned'[c] # NoReturn
    /\ returned'[c].outcome = Fulfilled(cacheStore[CalledKey(c)].value, "cache")
    /\ StartedNow = {}

StartsLoadOf(key) == \E id \in StartedNow : loads'[id].key = key

\* A refresh whose status call succeeded reports 'running'.
RecoveredRunning ==
    \A id \in LoadIds :
       (StatsSettlesNow(id) /\ ~ StatusCallFailed(id)) =>
           cacheStore'[KEY_STATS].value.status = "running"

C31_ReachedServed ==
    \E c \in Callers :
       /\ returned[c] # NoReturn
       /\ returned[c].key = KEY_TOKENS
       /\ returned[c].how = "fresh"
       /\ returned[c].outcome.value = NoBreakdown

\* an empty job list refreshed after 15 s,
C31_ReachedCronAgain ==
    \E id \in LoadIds :
       /\ AtPc(id, KEY_CRON, "awaitCli")
       /\ loads[id].existing.value = Array(<<>>)
       /\ now - loads[id].existing.timestamp = 15000

\* and a status refresh after the TTL of a degraded payload that was handed the
\* CLI status from the cache.
C31_ReachedStatusShared ==
    \E id \in LoadIds :
       /\ loads[id] # Settled
       /\ loads[id].key = KEY_STATS
       /\ loads[id].existing.value # Undefined
       /\ loads[id].existing.value.status \in {"down", "unknown"}
       /\ loads[id].run.inbox # Nothing
       /\ loads[id].run.inbox.by = "cache"

(***************************************************************************)
(* The handlers that share the CLI status, checked under SpecShared.       *)
(***************************************************************************)

\* The handlers that ask for the CLI status.
StatusUsers == {KEY_STATS, KEY_TOKENS, KEY_HEALTH}

\* A call of the handler of key leaves at most two of the three handlers
\* called in the behaviour.
SecondOfTwo(key) ==
    Cardinality({k \in StatusUsers : cacheStore[k] # NoEntry} \cup {key}) <= 2

\* The callers of the status, the token breakdown and the health check, two
\* of the three in one behaviour, with the CLI found or not and answering or
\* failing at will, the store empty, the metrics agent down, and the clock
\* running.
\* The steps of the upstreams (the probe, the CLI, the store, the metrics
\* agent) and of the loaders they resume.
SharedProgress ==
    \/ ProbeVersionOk /\ UNCHANGED httpVars
    \/ \E next \in CandidateIds :
          ProbeVersionFails(next) /\ UNCHANGED httpVars
    \/ \E id \in LoadIds :
          StatusJsonGotPath(id) /\ UNCHANGED httpVars
    \/ \E id \in LoadIds :
          CliStatusOk(id, StatusJson(1)) /\ UNCHANGED httpVars
    \/ \E id \in LoadIds :
          CliStatusFails(id) /\ UNCHANGED httpVars
    \/ \E id \in LoadIds :
          UsageQueryDone(id, DbRows(<<>>)) /\ UNCHANGED httpVars
    \/ \E id \in LoadIds :
          StatsGotStatus(id) /\ UNCHANGED httpVars
    \/ \E id \in LoadIds :
          StatsGot24h(id) /\ UNCHANGED httpVars
    \/ \E id \in LoadIds, first \in OnPathOnly :
          LatestRowQueryDone(id, <<>>, first) /\ UNCHANGED httpVars
    \/ \E id \in LoadIds :
          StatsGotPath(id) /\ UNCHANGED httpVars
    \/ \E id \in LoadIds :
          TokensGotStatus(id) /\ UNCHANGED httpVars
    \/ \E id \in LoadIds :
          HealthDbDone(id, DbRows(<<>>)) /\ UNCHANGED httpVars
    \/ \E id \in LoadIds, first \in OnPathOnly :
          GlancesHeaders(id, "failed", first) /\ UNCHANGED httpVars
    \/ \E id \in LoadIds :
          HealthGotPath(id) /\ UNCHANGED httpVars
    \/ \E id \in LoadIds :
          HealthGotStatus(id) /\ UNCHANGED httpVars

NextShared ==
    \/ Tick /\ UNCHANGED httpVars
    \/ \E c \in Callers, first \in OnPathOnly :
          SecondOfTwo(KEY_STATS) /\ GetOpenClawStats(c, first)
             /\ UNCHANGED httpVars
    \/ \E c \in Callers, first \in OnPathOnly :
          SecondOfTwo(KEY_TOKENS) /\ GetTokenBreakdown(c, first)
             /\ UNCHANGED httpVars
    \/ \E c \in Callers :
          SecondOfTwo(KEY_HEALTH) /\ GetHealthStatus(c) /\ UNCHANGED httpVars
    \/ SharedProgress

SpecShared == Init /\ [][NextShared]_vars

\* Every upstream call ends (a subprocess by its timeout at the latest) and
\* the event loop runs every continuation that was resumed.
SpecSharedFair == SpecShared /\ WF_vars(SharedProgress)

\* The `status --json` subprocesses that are running.
StatusSubprocesses == {id \in LoadIds : AtPc(id, KEY_STATUS_JSON, "awaitCli")}

\* The status loader id starts its subprocess in this step.
StatusSubprocessStarts(id) ==
    /\ AtPc(id, KEY_STATUS_JSON, "awaitPath")
    /\ loads'[id] # Settled
    /\ loads'[id].run.pc = "awaitCli"

\* The loaders that are waiting for the CLI status.
WaitingForStatus ==
    {id \in LoadIds : /\ loads[id] # Settled
                      /\ loads[id].run.pc = "awaitStatus"
                      /\ loads[id].run.inbox = Nothing}

\* C32: the CLI status invocation is coalesced across handlers.  The loaders
\* of the status, the token breakdown and the health check that wait for the
\* CLI status all wait for the one load in flight of 'openclaw-status-json';
\* at most one `status --json` subprocess is running in every state; and no
\* such subprocess is started while that key holds a value younger than 10 s.
C32_StatusCoalesced ==
    /\ [](/\ Cardinality(StatusSubprocesses) <= 1
          /\ \A id \in WaitingForStatus :
                /\ loads[id].key \in {KEY_STATS, KEY_TOKENS, KEY_HEALTH}
                /\ PendingLoads(KEY_STATUS_JSON) = {loads[id].run.awaiting}
          /\ \A id \in LoadIds :
                (loads[id] # Settled /\ loads[id].run.pc = "awaitCli") =>
                    loads[id].key \in {KEY_STATUS_JSON, KEY_CRON})
    /\ [][\A id \in LoadIds : StatusSubprocessStarts(id) =>
             ~ (/\ cacheStore[KEY_STATUS_JSON].value # Undefined
                /\ now - cacheStore[KEY_STATUS_JSON].timestamp < 10000)]_vars

\* Witness of C32: the loaders of two handlers wait for the same running
\* subprocess, started 10 s after the status it replaces.
C32_Witness ==
    \E i, j \in WaitingForStatus, id \in StatusSubprocesses :
       /\ loads[i].key # loads[j].key
       /\ loads[i].run.awaiting = id
       /\ loads[j].run.awaiting = id
       /\ loads[id].existing.value # Undefined
       /\ now - loads[id].existing.timestamp = 10000

\* The other cases of C32 are reached too: the status and the token breakdown
\* wait for one subprocess,
C32_ReachedStatsAndTokens ==
    \E i, j \in WaitingForStatus :
       /\ loads[i].key = KEY_STATS /\ loads[j].key = KEY_TOKENS
       /\ loads[i].run.awaiting \in StatusSubprocesses

\* and within 10 s of a success a loader is handed the status from the cache.
C32_ReachedWithinWindow ==
    \E id \in LoadIds :
       /\ loads[id] # Settled
       /\ loads[id].key = KEY_HEALTH
       /\ loads[id].run.pc = "awaitStatus"
       /\ loads[id].run.inbox # Nothing
       /\ loads[id].run.inbox.by = "cache"
       /\ now - cacheStore[KEY_STATUS_JSON].timestamp = 5000
       /\ StatusSubprocesses = {}

\* The promise the loader of promise id is suspended on, if any.
Upstream(id) == loads[id].run.awaiting

\* The suspension points at which a loader waits for the promise of a
\* nested withCache call.
NestedPcs == {"awaitStatus", "await24h", "await24hFallback"}

\* C33: nested cached loads cannot deadlock.  A loader suspended on a cached
\* load is a loader of 'openclaw-stats', 'token-breakdown' or 'health', and
\* the load it waits for is a pending load of 'openclaw-status-json' or
\* 'openclaw-24h-tokens', whose own loader waits for no cached load: no loader
\* waits, directly or transitively, on a load of its own key.  A loader whose
\* nested call settled holds the outcome, and with every upstream call
\* ending, every load in flight settles.
C33_NoDeadlock ==
    /\ [](\A id \in LoadIds : loads[id] # Settled =>
             /\ loads[id].key \in LeafKeys => Upstream(id) = NoLoad
             /\ Upstream(id) # NoLoad =>
                   /\ loads[id].key \in {KEY_STATS, KEY_TOKENS, KEY_HEALTH}
                   /\ Upstream(id) \in LoadIds
                   /\ IsPending(Upstream(id))
                   /\ loads[Upstream(id)].key \in LeafKeys
                   /\ loads[id].run.inbox = Nothing
             /\ (loads[id].run.pc \in NestedPcs /\ Upstream(id) = NoLoad) =>
                   loads[id].run.inbox # Nothing)
    /\ []<>(\A id \in LoadIds : loads[id] = Settled)

\* Witness of C33: the loaders of two handlers are suspended on the load of
\* the CLI status that the first of them started.
C33_Witness ==
    \E i, j \in LoadIds :
       /\ i < j
       /\ loads[i] # Settled /\ loads[j] # Settled
       /\ loads[i].key = KEY_HEALTH /\ loads[j].key = KEY_STATS
       /\ Upstream(i) # NoLoad
       /\ Upstream(i) = Upstream(j)
       /\ Upstream(i) < j

\* The status loader is suspended on the load of the 24-hour tokens too.
C33_ReachedUsage ==
    \E id \in LoadIds :
       /\ AtPc(id, KEY_STATS, "await24h")
       /\ Upstream(id) # NoLoad
       /\ loads[Upstream(id)].key = KEY_24H_TOKENS

(***************************************************************************)
(* The last known snapshot, checked under SpecStatus.                      *)
(***************************************************************************)

\* The status payload is the snapshot, marked down.
IsSnapshotMarkedDown(payload, snapshot) ==
    /\ payload.status = "down"
    /\ payload.cached = TRUE
    /\ payload.installed = snapshot.installed
    /\ payload.sessions = snapshot.sessions
    /\ payload.tokens = snapshot.tokens
    /\ payload.tokens24h = snapshot.tokens24h
    /\ payload.lastUpdated = snapshot.lastUpdated

\* What the status handler may report once there is a snapshot: the snapshot
\* itself, fresh from a success, or the snapshot marked down.
ReportsSnapshot(payload, snapshot) ==
    \/ payload = snapshot
    \/ IsSnapshotMarkedDown(payload, snapshot)

\* C34: the last-known-good snapshot is never cleared.  Once a status refresh
\* has succeeded the snapshot stays non-null and holds a payload with
\* installed true and status 'running'; from then on the status entry of the
\* cache and every answer of the status handler is the latest snapshot or
\* that snapshot marked 'down' and cached, never 'unknown' and never a
\* payload built from the store.
C34_SnapshotKept ==
    /\ [](lastKnownOpenClaw # Null =>
             /\ lastKnownOpenClaw.installed = TRUE
             /\ lastKnownOpenClaw.status = "running"
             /\ ReportsSnapshot(cacheStore[KEY_STATS].value, lastKnownOpenClaw)
             /\ \A c \in Callers :
                   (returned[c] # NoReturn /\ returned[c].key = KEY_STATS) =>
                       /\ returned[c].outcome.kind = "value"
                       /\ ReportsSnapshot(returned[c].outcome.value,
                                          lastKnownOpenClaw))
    /\ [][lastKnownOpenClaw # Null => lastKnownOpenClaw' # Null]_vars

\* Witness of C34: 10 s or more after the success that left the snapshot, a
\* refresh has failed and the callers were answered the snapshot marked down.
C34_Witness ==
    /\ lastKnownOpenClaw # Null
    /\ \E c \in Callers :
          /\ StatsReturnedTo(c)
          /\ IsSnapshotMarkedDown(returned[c].outcome.value, lastKnownOpenClaw)
          /\ returned[c].existing.value = lastKnownOpenClaw
          /\ now - lastKnownOpenClaw.lastUpdated >= 10000

\* The snapshot of an earlier success has been replaced by a later one while
\* the cache still held the earlier one marked down.
C34_ReachedReplaced ==
    /\ lastKnownOpenClaw # Null
    /\ \E c \in Callers :
          /\ StatsReturnedTo(c)
          /\ returned[c].outcome.value = lastKnownOpenClaw
          /\ returned[c].existing.value # Undefined
          /\ returned[c].existing.value.status = "unknown"

(***************************************************************************)
(* The lifetime of a cached value, checked under Spec.                     *)
(***************************************************************************)

\* C35: a cached value is never lost.  For every key, an entry that holds a
\* defined value holds a defined value after every step (a load that starts
\* or fails keeps the value it found, a load that succeeds replaces it), and
\* the timestamp of the entry never decreases.
C35_ValueKept ==
    [][\A key \in Keys :
          /\ cacheStore[key].value # Undefined =>
                /\ cacheStore'[key].value # Undefined
                /\ cacheStore'[key].value # cacheStore[key].value =>
                      \E id \in PendingLoads(key) :
                         /\ loads'[id] = Settled
                         /\ cacheStore'[key].timestamp = now
                /\ (\E id \in StartedNow : loads'[id].key = key) =>
                      cacheStore'[key].value = cacheStore[key].value
          /\ cacheStore'[key].timestamp >= cacheStore[key].timestamp
      ]_vars

\* Witness of C35: a load that found a value has failed, after the clock ran
\* past the TTL, and the entry holds that value with its timestamp.
C35_Witness ==
    \E c \in Callers :
       /\ ThrownTo(c)
       /\ returned[c].existing.value # Undefined
       /\ cacheStore[returned[c].key].value = returned[c].existing.value
       /\ cacheStore[returned[c].key].timestamp = returned[c].existing.timestamp
       /\ cacheStore[returned[c].key].timestamp < now

\* A load that found a value has succeeded with another value.
C35_ReachedReplaced ==
    \E c \in Callers :
       /\ returned[c] # NoReturn
       /\ returned[c].outcome.kind = "value"
       /\ returned[c].outcome.by = "loader"
       /\ returned[c].existing.value # Undefined
       /\ cacheStore[returned[c].key].value # returned[c].existing.value
       /\ cacheStore[returned[c].key].timestamp > returned[c].existing.timestamp

(***************************************************************************)
(* The anomalies of a process-insights result, checked under SpecProcesses.*)
(***************************************************************************)

\* The entry is one of the entries of list.
IsEntryOf(entry, list) == \E j \in 1..Len(list) : list[j] = entry

\* C36 as claimed: every entry of anomalies is an entry of processes and has a
\* non-null anomaly tag.
C36_Claimed ==
    \A r \in InsightResults :
       \A i \in 1..Len(r.anomalies) :
          /\ IsEntryOf(r.anomalies[i], r.processes)
          /\ r.anomalies[i].anomaly # "null"

\* C36: in every process-insights result each entry of anomalies has a
\* non-null anomaly tag and is the insight of one of the current processes
\* kept (at most 10); processes shows the first 8 of these insights, so each
\* flagged entry of processes is an entry of anomalies, and an entry of
\* anomalies that is not shown in processes belongs to the ninth or the
\* tenth process.
C36_AnomaliesFlagged ==
    /\ [](\A r \in InsightResults :
            /\ \A i \in 1..Len(r.anomalies) :
                  r.anomalies[i].anomaly \in {"cpu_high", "ram_high"}
            /\ \A j \in 1..Len(r.processes) :
                  r.processes[j].anomaly # "null" =>
                      IsEntryOf(r.processes[j], r.anomalies))
    /\ [][\A id \in LoadIds, groups \in StoreGroups :
            ProcessHistoryDone(id, AveragesOf(groups)) =>
                LET procs  == loads[id].run.mem.procs
                    result == cacheStore'[KEY_PROCESSES].value
                IN
                /\ Len(procs) <= 10
                /\ \A i \in 1..Len(result.anomalies) :
                      \E k \in 1..Len(procs) :
                         /\ result.anomalies[i].name = procs[k].name
                         /\ k <= 8 => result.processes[k] = result.anomalies[i]
                         /\ k > 8 => ~ IsEntryOf(result.anomalies[i],
                                                 result.processes)]_vars

\* Witness of C36: of ten current processes the first and the tenth are
\* flagged: both are in anomalies, the first alone is shown in processes.
C36_Witness ==
    \E r \in InsightResults :
       /\ Len(r.processes) = 8
       /\ Len(r.anomalies) = 2
       /\ r.anomalies[1] = r.processes[1]
       /\ r.anomalies[2].name = "j"
       /\ r.anomalies[2].anomaly = "cpu_high"
       /\ ~ IsEntryOf(r.anomalies[2], r.processes)

\* A result without anomalies among processes with averages.
C36_ReachedNone ==
    \E r \in InsightResults :
       /\ r.anomalies = <<>>
       /\ r.hasHistory
       /\ Len(r.processes) > 0

(***************************************************************************)
(* The split of the token breakdown, checked under SpecCli.                *)
(***************************************************************************)

\* C37 as claimed: for every total, the estimated input and output of the
\* token breakdown add up to the total.
C37_Claimed ==
    \A b \in Breakdowns : b.input + b.output = b.total

\* What holds instead: the two estimates add up to the total, or to one more
\* when the total leaves the remainder 2 on division by 4 (both quarters then
\* end in .5 and Math.round rounds both up).
C37_SplitWithinOne ==
    \A b \in Breakdowns :
       b.input + b.output = b.total + (IF b.total % 4 = 2 THEN 1 ELSE 0)

\* A total of 1000 is split into parts that add up to it.
C37_ReachedExact ==
    \E b \in Breakdowns :
       b.total = 1000 /\ b.input + b.output = 1000

(***************************************************************************)
(* Preflight requests, checked under SpecFrontDoor.                        *)
(***************************************************************************)
\* The responses to OPTIONS requests.
Preflights == {r \in Responses : r.req.method = "OPTIONS"}

\* No OPTIONS request waits for a handler, for the metrics agent or in a
\* rejected promise, and no cache load, cached value or path probe exists
\* while no request waits for a handler.
NothingTriggeredByPreflight ==
    /\ \A c \in Callers :
          conns[c].stage \in {"awaitHandler", "proxy", "unhandledRejection"} =>
              conns[c].req.method # "OPTIONS"
    /\ (\A c \in Callers : conns[c].stage # "awaitHandler") =>
          /\ \A id \in LoadIds : ~ IsPending(id)
          /\ \A k \in Keys : cacheStore[k] = NoEntry
          /\ openclawPathPromise = Null

\* C38: an OPTIONS request on any path is answered with an empty body, with
\* status 204 if and only if its Origin has a loopback hostname or the
\* hostname of the request's Host header and with status 403 otherwise, and
\* it triggers no handler, no cache load and no upstream call.  The code
\* decides the status by getAllowedOrigin (line 646), which takes what
\* precedes the first colon of the Host header for the hostname (line 147):
\* a preflight from the server's own origin with the Host [fe80::1]:8889 is
\* answered 403.
C38_Claimed ==
    /\ \A r \in Preflights :
          /\ r.status = IF OwnOrLoopbackOrigin(r.req) THEN 204 ELSE 403
          /\ r.body = Null
          /\ r.contentType = ""
    /\ NothingTriggeredByPreflight

\* What the code does for every preflight: an empty body, 204 exactly when
\* getAllowedOrigin returned the origin, and nothing triggered.
C38_ByAllowedOrigin ==
    /\ \A r \in Preflights :
          /\ r.status \in {204, 403}
          /\ r.status = 204 <=> GetAllowedOrigin(r.req.origin, r.req.host) # NoOrigin
          /\ r.acao = GetAllowedOrigin(r.req.origin, r.req.host)
          /\ r.body = Null
    /\ NothingTriggeredByPreflight

\* A preflight whose Origin names the host of its own Host header is refused.
C38_ReachedOwnOriginRefused ==
    \E r \in Preflights :
        /\ OwnOrLoopbackOrigin(r.req)
        /\ r.status = 403

(***************************************************************************)
(* One response for each request, checked under SpecFrontDoor and SpecHttp.*)
(***************************************************************************)
\* The request of connection c is still being handled: its handler waits for
\* a cached resource or for the metrics agent.
BeingHandled(cn) == cn.stage \in {"awaitHandler", "proxy"}

\* C39: every request receives exactly one response: the handler of every
\* accepted request either is still running or has written one response and
\* ended it; no handler has finished with no response written.  For the
\* request target "//" `new URL` throws at line 662, outside every try block:
\* the handler's promise rejects with nothing written (the defect of C12).
C39_Claimed ==
    \A c \in Callers :
        \/ conns[c] = Closed
        \/ BeingHandled(conns[c])
        \/ conns[c] = Answered

\* On the paths the claim lists a response is written once: the step that
\* finishes the handling of a request writes one response to its connection,
\* a response is written only by a step that leaves its connection answered,
\* and no step writes to a connection whose request is still being handled
\* afterwards.
C39_WrittenOnce ==
    [][\A c \in Callers :
          /\ sent'[c] # NoResponse => conns'[c] = Answered
          /\ (BeingHandled(conns[c]) /\ conns'[c] = Answered) =>
                 sent'[c] # NoResponse
          /\ (BeingHandled(conns[c]) /\ ~ BeingHandled(conns'[c])) =>
                 conns'[c] \in {Answered, Reset}]_vars

\* A request whose handler ended with no response.
C39_ReachedUnanswered ==
    \E c \in Callers :
        /\ conns[c].stage = "unhandledRejection"
        /\ sent[c] = NoResponse

====
